---- MODULE Spec2Model ----
(***************************************************************************)
(* Model of the EULA forensic-audit backend: the 3-way match validation    *)
(* rules (domain/validation.py), the forensic orchestrator                 *)
(* (services/forensic.py) and the verification / minting routes            *)
(* (api/routes).                                                           *)
(*                                                                         *)
(* Representation of values:                                               *)
(*   - Decimal amounts and quantities are integers counting hundredths     *)
(*     (Decimal("0.01") is 1, Decimal("80.00") is 8000);                   *)
(*   - dates are day numbers (date comparison is integer comparison,       *)
(*     (a - b).days is a - b);                                             *)
(*   - confidences are integer percents (0.7 is 70, 1.0 is 100);           *)
(*   - Python strings that the code takes apart character by character     *)
(*     (party names) are sequences of one-character strings; strings the   *)
(*     code only compares or copies are TLA+ strings;                      *)
(*   - an optional value is a sequence: <<>> is None, <<v>> is the value v *)
(*     (the string "None" stands for None where only strings occur).       *)
(***************************************************************************)
EXTENDS Integers, Sequences, FiniteSets, TLC

VARIABLES
    svc,      \* the ForensicService instance: collaborators and threshold
    pc,       \* position of the running verify_documents call
    req,      \* arguments of the running call
    loc,      \* local variables of the running call
    calls,    \* stages invoked so far by the running call, in order
    ret,      \* what the call returned (a ForensicAuditResult) or raised
    issued,   \* verification responses the verify route has answered, by id
    mint,     \* answer of the last prepare_mint_transaction request
    args,     \* arguments of the pure function under check
    out       \* its result

vars == <<svc, pc, req, loc, calls, ret, issued, mint, args, out>>

(***************************************************************************)
(* Bounds of the model.                                                    *)
(***************************************************************************)
MaxAmount == 14      \* small amounts range over -2 .. MaxAmount hundredths
MaxDay == 4          \* dates range over 1 .. MaxDay
MaxQuantity == 4     \* quantities range over 0 .. MaxQuantity hundredths
MaxItems == 2        \* line items per invoice
MaxVerifications == 2   \* requests the verify route answers

Abs(x) == IF x < 0 THEN -x ELSE x

RECURSIVE SumSeq(_)
SumSeq(s) == IF s = <<>> THEN 0 ELSE Head(s) + SumSeq(Tail(s))

(***************************************************************************)
(* domain/models.py                                                        *)
(***************************************************************************)
VerificationStatus == {"PENDING", "PROCESSING", "PASSED", "FAILED", "REQUIRES_REVIEW"}

\* ExtractedField: value and confidence (bounding box and raw text are not
\* read by validation).
ExtractedField(v, c) == [value |-> v, confidence |-> c]

LineItem(q, u, t, c) ==
    [ description |-> ExtractedField("item", c),
      quantity    |-> ExtractedField(q, c),
      unit_price  |-> ExtractedField(u, c),
      total       |-> ExtractedField(t, c) ]

\* LineItem.calculated_total: quantity * unit_price (in 1/10000).
item_calculated_total(item) == item.quantity.value * item.unit_price.value

\* LineItem.has_math_error: |quantity * unit_price - total| > 0.01.
has_math_error(item) ==
    Abs(item_calculated_total(item) - item.total.value * 100) > 1 * 100

\* Invoice.total_quantity: sum of the line-item quantities.
total_quantity(invoice) ==
    SumSeq([i \in 1..Len(invoice.line_items) |-> invoice.line_items[i].quantity.value])

\* Invoice.calculated_total: sum of the line-item totals.
calculated_total(invoice) ==
    SumSeq([i \in 1..Len(invoice.line_items) |-> invoice.line_items[i].total.value])

ValidationCheck(name, passed, message, details) ==
    [rule_name |-> name, passed |-> passed, message |-> message, details |-> details]

(***************************************************************************)
(* domain/validation.py                                                    *)
(***************************************************************************)
DECIMAL_TOLERANCE == 1             \* Decimal("0.01"), in hundredths
AMOUNT_VARIANCE_TOLERANCE == 20    \* Decimal("0.20"), in percent
ANOMALY_MULTIPLIER == 5            \* Decimal("5.0")
LONG_TERM_DAYS == 180

\* validate_quantity_match with the tolerance excluded (diff < 0.01).
validate_quantity_match_lt(pod, invoice) ==
    LET pod_qty == pod.quantity_delivered.value
        invoice_qty == total_quantity(invoice)
        diff == Abs(pod_qty - invoice_qty)
        passed == diff < DECIMAL_TOLERANCE
    IN  IF invoice.line_items = <<>>
        THEN ValidationCheck("quantity_match", TRUE, <<"Quantity match: OK">>, <<>>)
        ELSE ValidationCheck("quantity_match", passed,
                 IF passed THEN <<"Quantity matches">> ELSE <<"Quantity mismatch">>,
                 [difference |-> diff])

\* validate_quantity_match(pod, invoice)
validate_quantity_match(pod, invoice) ==
    LET pod_qty == pod.quantity_delivered.value
        invoice_qty == total_quantity(invoice)
        diff == Abs(pod_qty - invoice_qty)
        passed == diff <= DECIMAL_TOLERANCE
    IN  IF invoice.line_items = <<>>
        THEN ValidationCheck("quantity_match", TRUE, <<"Quantity match: OK">>, <<>>)
        ELSE ValidationCheck("quantity_match", passed,
                 IF passed THEN <<"Quantity matches">> ELSE <<"Quantity mismatch">>,
                 [difference |-> diff])

\* The variance |invoice - PO| / PO of validate_amount_authorization, kept as
\* the fraction num/den; Decimal("0") when the PO amount is not positive.
amount_variance(invoice_total, authorized_amount) ==
    IF authorized_amount > 0
    THEN [num |-> Abs(invoice_total - authorized_amount), den |-> authorized_amount]
    ELSE [num |-> 0, den |-> 1]

\* validate_amount_authorization with the variance test placed before the
\* exceeds-PO test.
validate_amount_authorization_swapped(invoice, po) ==
    LET invoice_total == invoice.total_amount.value
        authorized_amount == po.authorized_amount.value
        exceeds_po == invoice_total > authorized_amount + DECIMAL_TOLERANCE
        variance == amount_variance(invoice_total, authorized_amount)
        excessive_variance == variance.num * 100 > AMOUNT_VARIANCE_TOLERANCE * variance.den
    IN  IF invoice.currency.value # po.currency.value
        THEN ValidationCheck("amount_authorization", FALSE, <<"Currency mismatch">>,
                             [invoice_currency |-> invoice.currency.value,
                              po_currency |-> po.currency.value])
        ELSE IF excessive_variance
        THEN ValidationCheck("amount_authorization", FALSE, <<"Amount mismatch">>,
                             [variance |-> variance])
        ELSE IF exceeds_po
        THEN ValidationCheck("amount_authorization", FALSE, <<"exceeds authorized PO">>,
                             [variance |-> variance])
        ELSE ValidationCheck("amount_authorization", TRUE, <<"matches authorized PO">>,
                             [variance |-> variance])

\* validate_amount_authorization(invoice, po)
validate_amount_authorization(invoice, po) ==
    LET invoice_total == invoice.total_amount.value
        authorized_amount == po.authorized_amount.value
        exceeds_po == invoice_total > authorized_amount + DECIMAL_TOLERANCE
        variance == amount_variance(invoice_total, authorized_amount)
        excessive_variance == variance.num * 100 > AMOUNT_VARIANCE_TOLERANCE * variance.den
    IN  IF invoice.currency.value # po.currency.value
        THEN ValidationCheck("amount_authorization", FALSE, <<"Currency mismatch">>,
                             [invoice_currency |-> invoice.currency.value,
                              po_currency |-> po.currency.value])
        ELSE IF exceeds_po
        THEN ValidationCheck("amount_authorization", FALSE, <<"exceeds authorized PO">>,
                             [variance |-> variance])
        ELSE IF excessive_variance
        THEN ValidationCheck("amount_authorization", FALSE, <<"Amount mismatch">>,
                             [variance |-> variance])
        ELSE ValidationCheck("amount_authorization", TRUE, <<"matches authorized PO">>,
                             [variance |-> variance])

\* validate_date_sequence with the documented strict rule PO.Date < POD.Date.
validate_date_sequence_strict(po, pod, invoice) ==
    LET po_date == po.po_date.value
        pod_date == pod.delivery_date.value
        invoice_date == invoice.invoice_date.value
        errors == (IF po_date >= pod_date THEN <<"PO date is after delivery date">> ELSE <<>>)
               \o (IF pod_date > invoice_date
                   THEN <<"Delivery date is after invoice date">> ELSE <<>>)
        passed == Len(errors) = 0
    IN  ValidationCheck("date_sequence", passed,
            IF passed THEN <<"Date sequence valid">> ELSE errors,
            [po_date |-> po_date, pod_date |-> pod_date, invoice_date |-> invoice_date])

\* validate_date_sequence(po, pod, invoice)
validate_date_sequence(po, pod, invoice) ==
    LET po_date == po.po_date.value
        pod_date == pod.delivery_date.value
        invoice_date == invoice.invoice_date.value
        errors == (IF po_date > pod_date THEN <<"PO date is after delivery date">> ELSE <<>>)
               \o (IF pod_date > invoice_date
                   THEN <<"Delivery date is after invoice date">> ELSE <<>>)
        passed == Len(errors) = 0
    IN  ValidationCheck("date_sequence", passed,
            IF passed THEN <<"Date sequence valid">> ELSE errors,
            [po_date |-> po_date, pod_date |-> pod_date, invoice_date |-> invoice_date])

\* validate_line_item_sum(invoice)
validate_line_item_sum(invoice) ==
    LET calculated == calculated_total(invoice)
        stated == invoice.total_amount.value
        diff == Abs(calculated - stated)
        passed == diff <= DECIMAL_TOLERANCE
    IN  IF invoice.line_items = <<>>
        THEN ValidationCheck("line_item_sum", TRUE, <<"No line items to validate">>,
                             [note |-> "Skipped - no line items present"])
        ELSE ValidationCheck("line_item_sum", passed,
                 IF passed THEN <<"Line items sum matches total">> ELSE <<"Sum mismatch">>,
                 [difference |-> diff])

(***************************************************************************)
(* Python str operations used by validate_party_names, over sequences of   *)
(* one-character strings.                                                  *)
(***************************************************************************)
UPPERCASE == <<"A","B","C","D","E","F","G","H","I","J","K","L","M",
               "N","O","P","Q","R","S","T","U","V","W","X","Y","Z">>
LOWERCASE == <<"a","b","c","d","e","f","g","h","i","j","k","l","m",
               "n","o","p","q","r","s","t","u","v","w","x","y","z">>

LowerChar(c) ==
    IF \E i \in 1..Len(UPPERCASE) : UPPERCASE[i] = c
    THEN LOWERCASE[CHOOSE i \in 1..Len(UPPERCASE) : UPPERCASE[i] = c]
    ELSE c

\* U+0130, the one character whose lower() is two characters: 'i' followed
\* by U+0307.  Each is one element of a text.
DOTTED_CAPITAL_I == "LATIN CAPITAL LETTER I WITH DOT ABOVE"
COMBINING_DOT == "COMBINING DOT ABOVE"

\* str.lower(): one character for each character, two for each U+0130
StrLower(s) ==
    LET dotted == { j \in 1..Len(s) : s[j] = DOTTED_CAPITAL_I }
        Before(i) == Cardinality({ j \in dotted : j < i })
        Source(k) ==
            CHOOSE i \in 1..Len(s) :
                /\ k - Cardinality(dotted) <= i /\ i <= k
                /\ i + Before(i) <= k
                /\ k <= i + Before(i) + (IF i \in dotted THEN 1 ELSE 0)
    IN  IF dotted = {} THEN [i \in 1..Len(s) |-> LowerChar(s[i])]
        ELSE [ k \in 1..(Len(s) + Cardinality(dotted)) |->
                 IF Source(k) \in dotted
                 THEN (IF k = Source(k) + Before(Source(k)) THEN "i" ELSE COMBINING_DOT)
                 ELSE LowerChar(s[Source(k)]) ]

\* str.strip()
RECURSIVE StrLStrip(_)
StrLStrip(s) == IF s # <<>> /\ Head(s) = " " THEN StrLStrip(Tail(s)) ELSE s
RECURSIVE StrRStrip(_)
StrRStrip(s) ==
    IF s # <<>> /\ s[Len(s)] = " " THEN StrRStrip(SubSeq(s, 1, Len(s) - 1)) ELSE s
StrStrip(s) == StrRStrip(StrLStrip(s))

StartsWithAt(s, i, p) ==
    /\ i + Len(p) - 1 <= Len(s)
    /\ \A k \in 1..Len(p) : s[i + k - 1] = p[k]

\* s.replace(p, ''), p non-empty: every non-overlapping occurrence, left to right
RECURSIVE StrRemove(_, _)
StrRemove(s, p) ==
    IF s = <<>> THEN <<>>
    ELSE IF StartsWithAt(s, 1, p) THEN StrRemove(SubSeq(s, Len(p) + 1, Len(s)), p)
    ELSE <<Head(s)>> \o StrRemove(Tail(s), p)

\* p in s
StrContains(s, p) == \E i \in 1..(Len(s) - Len(p) + 1) : StartsWithAt(s, i, p)

\* set(s.split()): the maximal runs of non-blank characters
StrWords(s) ==
    { SubSeq(s, i, j) : <<i, j>> \in
        { w \in (1..Len(s)) \X (1..Len(s)) :
            /\ w[1] <= w[2]
            /\ \A k \in w[1]..w[2] : s[k] # " "
            /\ (w[1] = 1 \/ s[w[1] - 1] = " ")
            /\ (w[2] = Len(s) \/ s[w[2] + 1] = " ") } }

RECURSIVE RemoveAll(_, _)
RemoveAll(s, ps) == IF ps = <<>> THEN s ELSE RemoveAll(StrRemove(s, Head(ps)), Tail(ps))

COMPANY_SUFFIXES ==
    << <<" ","p","t","e"," ","l","t","d">>,
       <<" ","p","t","e","."," ","l","t","d",".">>,
       <<" ","p","t","e">>, <<" ","l","t","d">>, <<" ","i","n","c">>,
       <<" ","c","o","r","p">>, <<" ","l","l","c">>, <<".">> >>
OCR_ARTIFACTS ==
    << <<"p",".","o",".">>, <<"p","o","-">>, <<"s","t","a","m","p">>,
       <<"c","o","m","p","a","n","y">> >>

\* validate_party_names.normalize
normalize_name(name) ==
    StrStrip(RemoveAll(RemoveAll(StrStrip(StrLower(name)), COMPANY_SUFFIXES), OCR_ARTIFACTS))

\* validate_party_names.fuzzy_match
fuzzy_match(name1, name2) ==
    LET n1 == normalize_name(name1)
        n2 == normalize_name(name2)
        unknown == <<"u","n","k","n","o","w","n">>
        common == StrWords(n1) \cap StrWords(n2)
    IN  \/ n1 = <<>> \/ n2 = <<>> \/ n1 = unknown \/ n2 = unknown
        \/ n1 = n2
        \/ StrContains(n2, n1) \/ StrContains(n1, n2)
        \/ \E w \in common : Len(w) > 3

\* validate_party_names(bundle)
validate_party_names(bundle) ==
    LET invoice == bundle.invoice
        po == bundle.purchase_order
        warnings ==
            (IF ~fuzzy_match(invoice.payee_name.value, po.vendor_name.value)
             THEN <<"Payee mismatch">> ELSE <<>>)
         \o (IF ~fuzzy_match(invoice.payer_name.value, po.buyer_name.value)
             THEN <<"Payer mismatch">> ELSE <<>>)
        passed == Len(warnings) = 0
    IN  ValidationCheck("party_names", passed,
            IF passed THEN <<"Party names consistent">> ELSE warnings,
            [note |-> IF passed THEN "None" ELSE "Fuzzy matching enabled for OCR tolerance"])

Anomaly(code, severity, field_path) ==
    [code |-> code, severity |-> severity, field_path |-> field_path]

\* detect_anomalies with the amount spike reported at severity "error".
detect_anomalies_blocking(invoice, historical_average) ==
    LET spike ==
            IF /\ historical_average # <<>>
               /\ historical_average[1] > 0
               /\ invoice.total_amount.value > ANOMALY_MULTIPLIER * historical_average[1]
            THEN <<Anomaly("AMOUNT_SPIKE", "error", <<"invoice.total_amount">>)>>
            ELSE <<>>
        long_term ==
            IF /\ invoice.due_date.value > invoice.invoice_date.value
               /\ invoice.due_date.value - invoice.invoice_date.value > LONG_TERM_DAYS
            THEN <<Anomaly("LONG_TERM", "warning", <<"invoice.due_date">>)>>
            ELSE <<>>
        n == Len(invoice.line_items)
        math == [i \in 1..n |->
                    IF has_math_error(invoice.line_items[i])
                    THEN <<Anomaly("LINE_ITEM_MATH", "warning", <<"invoice.line_items", i - 1>>)>>
                    ELSE <<>>]
        Flat[i \in 0..n] == IF i = 0 THEN <<>> ELSE Flat[i - 1] \o math[i]
    IN  spike \o long_term \o Flat[n]

\* detect_anomalies(invoice, historical_average)
detect_anomalies(invoice, historical_average) ==
    LET spike ==
            IF /\ historical_average # <<>>
               /\ historical_average[1] > 0
               /\ invoice.total_amount.value > ANOMALY_MULTIPLIER * historical_average[1]
            THEN <<Anomaly("AMOUNT_SPIKE", "warning", <<"invoice.total_amount">>)>>
            ELSE <<>>
        long_term ==
            IF /\ invoice.due_date.value > invoice.invoice_date.value
               /\ invoice.due_date.value - invoice.invoice_date.value > LONG_TERM_DAYS
            THEN <<Anomaly("LONG_TERM", "warning", <<"invoice.due_date">>)>>
            ELSE <<>>
        n == Len(invoice.line_items)
        math == [i \in 1..n |->
                    IF has_math_error(invoice.line_items[i])
                    THEN <<Anomaly("LINE_ITEM_MATH", "warning", <<"invoice.line_items", i - 1>>)>>
                    ELSE <<>>]
        Flat[i \in 0..n] == IF i = 0 THEN <<>> ELSE Flat[i - 1] \o math[i]
    IN  spike \o long_term \o Flat[n]

\* collect_review_flags flagging a field at the threshold too (<=).
collect_review_flags_le(bundle, confidence_threshold) ==
    LET invoice == bundle.invoice
        po == bundle.purchase_order
        pod == bundle.proof_of_delivery
        flag(f, path) == IF f.confidence <= confidence_threshold THEN <<path>> ELSE <<>>
    IN  flag(invoice.total_amount, "invoice.total_amount")
     \o flag(invoice.invoice_number, "invoice.invoice_number")
     \o flag(po.authorized_amount, "purchase_order.authorized_amount")
     \o flag(po.po_number, "purchase_order.po_number")
     \o flag(pod.quantity_delivered, "proof_of_delivery.quantity_delivered")
     \o flag(pod.delivery_date, "proof_of_delivery.delivery_date")

\* collect_review_flags(bundle, confidence_threshold)
collect_review_flags(bundle, confidence_threshold) ==
    LET invoice == bundle.invoice
        po == bundle.purchase_order
        pod == bundle.proof_of_delivery
        flag(f, path) == IF f.confidence < confidence_threshold THEN <<path>> ELSE <<>>
    IN  flag(invoice.total_amount, "invoice.total_amount")
     \o flag(invoice.invoice_number, "invoice.invoice_number")
     \o flag(po.authorized_amount, "purchase_order.authorized_amount")
     \o flag(po.po_number, "purchase_order.po_number")
     \o flag(pod.quantity_delivered, "proof_of_delivery.quantity_delivered")
     \o flag(pod.delivery_date, "proof_of_delivery.delivery_date")

VerificationResult(status, checks, anomalies, review_flags) ==
    [status |-> status, checks |-> checks, anomalies |-> anomalies,
     review_flags |-> review_flags]

\* run_full_verification with the review test placed before the failure test.
run_full_verification_review_first(bundle, historical_average, confidence_threshold) ==
    LET checks == << validate_quantity_match(bundle.proof_of_delivery, bundle.invoice),
                     validate_amount_authorization(bundle.invoice, bundle.purchase_order),
                     validate_date_sequence(bundle.purchase_order,
                                            bundle.proof_of_delivery, bundle.invoice),
                     validate_line_item_sum(bundle.invoice),
                     validate_party_names(bundle) >>
        anomalies == detect_anomalies(bundle.invoice, historical_average)
        review_flags == collect_review_flags(bundle, confidence_threshold)
        all_passed == \A i \in 1..Len(checks) : checks[i].passed
        has_blocking_anomalies == \E i \in 1..Len(anomalies) : anomalies[i].severity = "error"
        needs_review == Len(review_flags) > 0
        status == IF needs_review THEN "REQUIRES_REVIEW"
                  ELSE IF ~all_passed \/ has_blocking_anomalies THEN "FAILED"
                  ELSE "PASSED"
    IN  VerificationResult(status, checks, anomalies, review_flags)

\* run_full_verification(bundle, historical_average, confidence_threshold)
run_full_verification(bundle, historical_average, confidence_threshold) ==
    LET checks == << validate_quantity_match(bundle.proof_of_delivery, bundle.invoice),
                     validate_amount_authorization(bundle.invoice, bundle.purchase_order),
                     validate_date_sequence(bundle.purchase_order,
                                            bundle.proof_of_delivery, bundle.invoice),
                     validate_line_item_sum(bundle.invoice),
                     validate_party_names(bundle) >>
        anomalies == detect_anomalies(bundle.invoice, historical_average)
        review_flags == collect_review_flags(bundle, confidence_threshold)
        all_passed == \A i \in 1..Len(checks) : checks[i].passed
        has_blocking_anomalies == \E i \in 1..Len(anomalies) : anomalies[i].severity = "error"
        needs_review == Len(review_flags) > 0
        status == IF ~all_passed \/ has_blocking_anomalies THEN "FAILED"
                  ELSE IF needs_review THEN "REQUIRES_REVIEW"
                  ELSE "PASSED"
    IN  VerificationResult(status, checks, anomalies, review_flags)

(***************************************************************************)
(* Document bundles the rules are applied to.                              *)
(***************************************************************************)
NAME_ACME    == <<"A","c","m","e"," ","T","r","a","d","i","n","g"," ","P","t","e"," ","L","t","d">>
NAME_ACME_UC == <<"A","C","M","E"," ","T","R","A","D","I","N","G">>
NAME_GLOBEX  == <<"G","l","o","b","e","x"," ","C","o","r","p">>
NAME_INITECH == <<"I","n","i","t","e","c","h"," ","L","L","C">>
NAME_UNKNOWN == <<"U","N","K","N","O","W","N">>

Currencies == {"USD", "SGD"}

\* One line item of quantity q, unit price u and total t.
Items(qs, us, ts) == { LineItem(q, u, t, 90) : q \in qs, u \in us, t \in ts }

\* Sequences of at most n elements of S.
SeqsUpTo(S, n) == UNION { [1..k -> S] : k \in 0..n }

BaseInvoice ==
    [ invoice_number |-> ExtractedField("INV-2024-001", 95),
      total_amount   |-> ExtractedField(800000, 95),
      currency       |-> ExtractedField("USD", 100),
      invoice_date   |-> ExtractedField(3, 90),
      due_date       |-> ExtractedField(3, 90),
      payee_name     |-> ExtractedField(NAME_ACME, 90),
      payer_name     |-> ExtractedField(NAME_GLOBEX, 90),
      line_items     |-> << LineItem(20000, 4000, 800000, 90) >> ]

BasePurchaseOrder ==
    [ po_number         |-> ExtractedField("PO-2024-001", 95),
      authorized_amount |-> ExtractedField(800000, 95),
      currency          |-> ExtractedField("USD", 100),
      po_date           |-> ExtractedField(1, 90),
      buyer_name        |-> ExtractedField(NAME_GLOBEX, 90),
      vendor_name       |-> ExtractedField(NAME_ACME_UC, 90) ]

BaseProofOfDelivery ==
    [ delivery_reference |-> ExtractedField("DO-2024-001", 95),
      quantity_delivered |-> ExtractedField(20000, 95),
      delivery_date      |-> ExtractedField(2, 90),
      recipient_name     |-> ExtractedField(NAME_GLOBEX, 90),
      recipient_signature |-> TRUE ]

DocumentBundle(invoice, po, pod) ==
    [ invoice |-> invoice, purchase_order |-> po, proof_of_delivery |-> pod ]

BaseBundle == DocumentBundle(BaseInvoice, BasePurchaseOrder, BaseProofOfDelivery)

AmountValues == (-2..MaxAmount) \cup {600000, 800000, 900000}

\* Inputs of validate_amount_authorization: both amounts and both currencies.
AmountBundles ==
    { DocumentBundle(
        [BaseInvoice EXCEPT !.total_amount.value = i, !.currency.value = ic],
        [BasePurchaseOrder EXCEPT !.authorized_amount.value = p, !.currency.value = pcur],
        BaseProofOfDelivery)
      : i \in AmountValues, p \in AmountValues, ic \in Currencies, pcur \in Currencies }

\* Inputs of validate_date_sequence: the three dates.
DateBundles ==
    { DocumentBundle(
        [BaseInvoice EXCEPT !.invoice_date.value = di, !.due_date.value = di],
        [BasePurchaseOrder EXCEPT !.po_date.value = dp],
        [BaseProofOfDelivery EXCEPT !.delivery_date.value = dd])
      : di \in 1..MaxDay, dp \in 1..MaxDay, dd \in 1..MaxDay }

QuantityValues == (0..MaxQuantity) \cup {20000, 21000}

\* Inputs of validate_quantity_match: the delivered quantity and the line items.
QuantityBundles ==
    { DocumentBundle(
        [BaseInvoice EXCEPT !.line_items = items],
        BasePurchaseOrder,
        [BaseProofOfDelivery EXCEPT !.quantity_delivered.value = q])
      : q \in QuantityValues,
        items \in SeqsUpTo(Items({0, 1, 2, 10000, 11000}, {4000}, {800000}), MaxItems) }

Thresholds == {0, 70, 100}

\* Inputs of collect_review_flags: the confidence of each critical field, and
\* one confidence for all the other fields of the three documents.
ConfidenceBundles ==
    { DocumentBundle(
        [BaseInvoice EXCEPT !.total_amount.confidence = c[1],
                            !.invoice_number.confidence = c[2],
                            !.currency.confidence = o, !.invoice_date.confidence = o,
                            !.due_date.confidence = o, !.payee_name.confidence = o,
                            !.payer_name.confidence = o,
                            !.line_items = << LineItem(20000, 4000, 800000, o) >>],
        [BasePurchaseOrder EXCEPT !.authorized_amount.confidence = c[3],
                                  !.po_number.confidence = c[4],
                                  !.currency.confidence = o, !.po_date.confidence = o,
                                  !.buyer_name.confidence = o, !.vendor_name.confidence = o],
        [BaseProofOfDelivery EXCEPT !.quantity_delivered.confidence = c[5],
                                    !.delivery_date.confidence = c[6],
                                    !.delivery_reference.confidence = o,
                                    !.recipient_name.confidence = o])
      : c \in [1..6 -> {0, 69, 70}], o \in {0, 69, 100} }

\* Inputs of run_full_verification: bundles in which each rule can pass or
\* fail, each anomaly can occur and critical fields can be of low confidence.
VerifyBundles ==
    { DocumentBundle(
        [BaseInvoice EXCEPT !.total_amount = ExtractedField(i, c1),
                            !.due_date.value = due,
                            !.payee_name = ExtractedField(payee, o),
                            !.invoice_date.confidence = o,
                            !.line_items = items],
        [BasePurchaseOrder EXCEPT !.authorized_amount.value = p,
                                  !.currency.value = pcur,
                                  !.po_date = ExtractedField(dp, o)],
        [BaseProofOfDelivery EXCEPT !.quantity_delivered.value = q,
                                    !.delivery_date.confidence = c6])
      : i \in {0, 800000, 1000000}, p \in {0, 800000}, pcur \in Currencies,
        items \in { <<>>, << LineItem(20000, 4000, 800000, 90) >>,
                    << LineItem(20000, 4000, 700000, 90) >>,
                    << LineItem(20000, 3000, 800000, 90) >> },
        q \in {0, 20000}, dp \in {1, 3}, due \in {3, 3 + LONG_TERM_DAYS + 1},
        payee \in {NAME_ACME, NAME_INITECH},
        c1 \in {50, 95}, c6 \in {95}, o \in {0, 90} }

\* historical_average: <<>> is None, <<h>> is Decimal h.
HistoricalAverages == {<<>>, <<0>>, <<100000>>}

RuleArgs(fn, bundles, hists, thresholds) ==
    { [fn |-> fn, bundle |-> b, historical_average |-> h, confidence_threshold |-> t]
      : b \in bundles, h \in hists, t \in thresholds }

(***************************************************************************)
(* domain/hashing.py, services/xrpl.py, services/did.py: what the          *)
(* orchestrator uses of its collaborators.                                 *)
(***************************************************************************)
\* Document contents: the empty byte string and three files.
EMPTY == ""
Contents == {EMPTY, "%PDF-invoice", "%PDF-po", "%PDF-pod"}

\* hashlib.sha256(content).hexdigest(), as a number standing for the digest:
\* distinct contents have distinct digests.
Sha256Hex(content) ==
    CASE content = EMPTY -> 58
      [] content = "%PDF-invoice" -> 201
      [] content = "%PDF-po" -> 17
      [] content = "%PDF-pod" -> 133

\* compute_document_hash(content): raises ValueError on empty content.
compute_document_hash_raises(content) == content = EMPTY
compute_document_hash(content) == [prefix |-> "sha256:", digest |-> Sha256Hex(content)]

DuplicateCheckResult(is_duplicate) == [is_duplicate |-> is_duplicate]

\* The duplicate-check collaborator a ForensicService is composed with:
\* "None" (no collaborator), "XRPLService" (the class of services/xrpl.py, whose
\* check_duplicate always answers is_duplicate=False) or "DuplicateIndex" (an
\* implementation backed by an index of minted hashes, which may answer either
\* way or fail).
XrplKinds == {"None", "XRPLService", "DuplicateIndex"}

\* Outcomes of self.xrpl.check_duplicate(invoice_hash).
check_duplicate(kind) ==
    IF kind = "XRPLService" THEN {"not_duplicate"}
    ELSE {"not_duplicate", "duplicate", "raise"}

DIDStatus == {"VERIFIED", "NOT_FOUND", "EXPIRED", "REVOKED", "INVALID", "PENDING", "SKIPPED"}

DIDVerificationResult(wallet_address, status) ==
    [wallet_address |-> wallet_address, status |-> status]

\* DIDVerificationResult.is_verified
is_verified(did_result) == did_result.status = "VERIFIED"

\* create_skipped_result(wallet_address)
create_skipped_result(wallet_address) == DIDVerificationResult(wallet_address, "SKIPPED")

\* What the ledger lookup in the try block of DIDVerifier.verify_wallet can
\* end in: an exception (client, request or parsing), a response that is not
\* successful, account objects without a DID entry, or a DID entry.
LedgerResponses == {"exception", "unsuccessful", "no_did", "did"}

\* lookup_status with an unsuccessful response reported as INVALID.
lookup_status_invalid(response) ==
    IF response = "unsuccessful" THEN "INVALID"
    ELSE IF response = "no_did" THEN "NOT_FOUND"
    ELSE IF response = "did" THEN "VERIFIED"
    ELSE "NOT_FOUND"

\* The status of the result DIDVerifier.verify_wallet builds after a lookup;
\* the last branch is the except clause.
lookup_status(response) ==
    IF response = "unsuccessful" THEN "NOT_FOUND"
    ELSE IF response = "no_did" THEN "NOT_FOUND"
    ELSE IF response = "did" THEN "VERIFIED"
    ELSE "NOT_FOUND"

\* The identity collaborator: "None", "DIDVerifier" (the class of
\* services/did.py) or "Resolver" (a full DID resolver, which may answer any
\* DIDStatus or fail).
DidKinds == {"None", "DIDVerifier", "Resolver"}

\* Outcomes of await self.did.verify_wallet(wallet_address): for DIDVerifier, a
\* result built after a lookup, or such a result kept in the cache.
verify_wallet(kind) ==
    IF kind = "DIDVerifier" THEN { lookup_status(response) : response \in LedgerResponses }
    ELSE DIDStatus \cup {"raise"}

(***************************************************************************)
(* services/forensic.py                                                    *)
(***************************************************************************)
ForensicAuditResult(verification, duplicate_check, did_verification, bundle, invoice_hash, po_hash, pod_hash) ==
    [ verification |-> verification, duplicate_check |-> duplicate_check,
      did_verification |-> did_verification, bundle |-> bundle,
      invoice_hash |-> invoice_hash, po_hash |-> po_hash, pod_hash |-> pod_hash ]

\* ForensicAuditResult.passed
passed(result) ==
    IF result.verification.status # "PASSED" THEN FALSE
    ELSE IF result.duplicate_check # <<>> /\ result.duplicate_check[1].is_duplicate THEN FALSE
    ELSE IF result.did_verification # <<>> /\ ~is_verified(result.did_verification[1])
         THEN FALSE
    ELSE TRUE

\* ForensicAuditResult.can_mint
can_mint(result) == passed(result) \/ result.verification.status = "REQUIRES_REVIEW"

\* VerificationResult(status=FAILED, checks=[], anomalies=[])
FailedVerification == VerificationResult("FAILED", <<>>, <<>>, <<>>)

\* What the OCR engine and the extractors can make of the three documents.
\* Both currencies are the constant "USD" at confidence 1.0.
ExtractedInvoices ==
    { BaseInvoice,
      [BaseInvoice EXCEPT !.total_amount.confidence = 50],
      [BaseInvoice EXCEPT !.total_amount.value = 1000000] }
ExtractedPurchaseOrders ==
    { BasePurchaseOrder,
      [BasePurchaseOrder EXCEPT !.po_number = ExtractedField("UNKNOWN", 0)] }
ExtractedProofsOfDelivery ==
    { BaseProofOfDelivery,
      [BaseProofOfDelivery EXCEPT !.quantity_delivered.value = 0] }

Wallets == {"rSME"}

\* One empty document at most: the first empty one decides what hashing does.
ContentTriples ==
    { <<"%PDF-invoice", "%PDF-po", "%PDF-pod">>, <<EMPTY, "%PDF-po", "%PDF-pod">>,
      <<"%PDF-invoice", EMPTY, "%PDF-pod">>, <<"%PDF-invoice", "%PDF-po", EMPTY>> }

Requests(via, triples, duplicate_flags) ==
    { [ via |-> via, wallet_address |-> w,
        invoice |-> c[1], purchase_order |-> c[2], proof_of_delivery |-> c[3],
        check_duplicate |-> cd, verify_did |-> vd ]
      : w \in Wallets, c \in triples, cd \in duplicate_flags, vd \in BOOLEAN }

NoLocals ==
    [ invoice_hash |-> <<>>, po_hash |-> <<>>, pod_hash |-> <<>>,
      duplicate_result |-> <<>>, did_result |-> <<>>,
      invoice_data |-> <<>>, po_data |-> <<>>, pod_data |-> <<>>,
      hard_failure |-> "" ]

\* The call returned `result`.
Return(result) ==
    /\ ret' = << [raised |-> FALSE, error |-> "", result |-> <<result>>] >>
    /\ pc' = "returned"

\* The call raised `error` to its caller.
Raise(error) ==
    /\ ret' = << [raised |-> TRUE, error |-> error, result |-> <<>>] >>
    /\ pc' = "raised"

\* Early return of verify_documents: FAILED, no checks, no bundle.
ReturnFailed(l) ==
    Return(ForensicAuditResult(FailedVerification, l.duplicate_result, l.did_result, <<>>,
                               l.invoice_hash, l.po_hash, l.pod_hash))

\* A caller invokes ForensicService.verify_documents directly.
Call ==
    /\ pc = "idle"
    /\ ret = <<>>
    /\ \E r \in Requests("service", ContentTriples, BOOLEAN) : req' = <<r>>
    /\ loc' = NoLocals
    /\ pc' = "hash"
    /\ UNCHANGED <<svc, calls, ret, issued, mint, args, out>>

\* Step 1: compute the three document hashes, in order.
ComputeHashes ==
    /\ pc = "hash"
    /\ LET r == req[1]
           docs == <<r.invoice, r.purchase_order, r.proof_of_delivery>>
           bad == { k \in 1..3 : compute_document_hash_raises(docs[k]) }
           first == IF bad = {} THEN 4 ELSE CHOOSE k \in bad : \A j \in bad : k <= j
       IN  /\ calls' = calls \o [k \in 1..(IF first = 4 THEN 3 ELSE first) |->
                                    "compute_document_hash"]
           /\ IF first = 4
              THEN /\ loc' = [loc EXCEPT !.invoice_hash = <<compute_document_hash(docs[1])>>,
                                         !.po_hash = <<compute_document_hash(docs[2])>>,
                                         !.pod_hash = <<compute_document_hash(docs[3])>>]
                   /\ pc' = "duplicate"
                   /\ UNCHANGED ret
              ELSE /\ loc' = [loc EXCEPT !.hard_failure = "compute_document_hash"]
                   /\ Raise("ValueError: Cannot hash empty content")
    /\ UNCHANGED <<svc, req, issued, mint, args, out>>

\* A duplicate check whose answer is recorded but never stops the pipeline.
duplicate_short_circuits_never(duplicate_result) == FALSE

\* if duplicate_result.is_duplicate: return the FAILED result
duplicate_short_circuits(duplicate_result) == duplicate_result.is_duplicate

\* Step 2: check for duplicates.
CheckDuplicate ==
    /\ pc = "duplicate"
    /\ IF req[1].check_duplicate /\ svc.xrpl # "None"
       THEN \E outcome \in check_duplicate(svc.xrpl) :
              /\ calls' = Append(calls, "check_duplicate")
              /\ IF outcome = "raise"
                 THEN /\ loc' = [loc EXCEPT !.hard_failure = "check_duplicate"]
                      /\ Raise("check_duplicate failed")
                 ELSE LET duplicate_result == DuplicateCheckResult(outcome = "duplicate")
                          l == [loc EXCEPT !.duplicate_result = <<duplicate_result>>]
                      IN  /\ loc' = l
                          /\ IF duplicate_short_circuits(duplicate_result)
                             THEN ReturnFailed(l)
                             ELSE pc' = "did" /\ UNCHANGED ret
       ELSE /\ pc' = "did"
            /\ UNCHANGED <<calls, loc, ret>>
    /\ UNCHANGED <<svc, req, issued, mint, args, out>>

\* A DID check that stops the pipeline on every unverified result.
did_short_circuits_unverified(did_result) == ~is_verified(did_result)

\* if not did_result.is_verified and did_result.status != DIDStatus.NOT_FOUND
did_short_circuits(did_result) ==
    ~is_verified(did_result) /\ did_result.status # "NOT_FOUND"

\* Step 3: verify the DID.
VerifyDid ==
    /\ pc = "did"
    /\ IF req[1].verify_did /\ svc.did # "None"
       THEN \E outcome \in verify_wallet(svc.did) :
              /\ calls' = Append(calls, "verify_wallet")
              /\ IF outcome = "raise"
                 THEN /\ loc' = [loc EXCEPT !.hard_failure = "verify_wallet"]
                      /\ Raise("verify_wallet failed")
                 ELSE LET did_result == DIDVerificationResult(req[1].wallet_address, outcome)
                          l == [loc EXCEPT !.did_result = <<did_result>>]
                      IN  /\ loc' = l
                          /\ IF did_short_circuits(did_result)
                             THEN ReturnFailed(l)
                             ELSE pc' = "extract_invoice" /\ UNCHANGED ret
       ELSE /\ loc' = [loc EXCEPT !.did_result =
                          IF ~req[1].verify_did
                          THEN <<create_skipped_result(req[1].wallet_address)>>
                          ELSE <<>>]
            /\ pc' = "extract_invoice"
            /\ UNCHANGED <<calls, ret>>
    /\ UNCHANGED <<svc, req, issued, mint, args, out>>

\* except Exception: return FAILED (the try block around the three extractions)
ExtractionFailed(stage) ==
    LET l == [loc EXCEPT !.hard_failure = stage] IN
    /\ loc' = l
    /\ ReturnFailed(l)

\* Step 4: OCR and extraction of the invoice.
ExtractInvoice ==
    /\ pc = "extract_invoice"
    /\ calls' = Append(calls, "extract_invoice")
    /\ \/ ExtractionFailed("extract_invoice")
       \/ \E d \in ExtractedInvoices :
            /\ loc' = [loc EXCEPT !.invoice_data = <<d>>]
            /\ pc' = "extract_purchase_order"
            /\ UNCHANGED ret
    /\ UNCHANGED <<svc, req, issued, mint, args, out>>

\* Step 4: OCR and extraction of the purchase order.
ExtractPurchaseOrder ==
    /\ pc = "extract_purchase_order"
    /\ calls' = Append(calls, "extract_purchase_order")
    /\ \/ ExtractionFailed("extract_purchase_order")
       \/ \E d \in ExtractedPurchaseOrders :
            /\ loc' = [loc EXCEPT !.po_data = <<d>>]
            /\ pc' = "extract_proof_of_delivery"
            /\ UNCHANGED ret
    /\ UNCHANGED <<svc, req, issued, mint, args, out>>

\* Step 4: OCR and extraction of the proof of delivery.
ExtractProofOfDelivery ==
    /\ pc = "extract_proof_of_delivery"
    /\ calls' = Append(calls, "extract_proof_of_delivery")
    /\ \/ ExtractionFailed("extract_proof_of_delivery")
       \/ \E d \in ExtractedProofsOfDelivery :
            /\ loc' = [loc EXCEPT !.pod_data = <<d>>]
            /\ pc' = "validate"
            /\ UNCHANGED ret
    /\ UNCHANGED <<svc, req, issued, mint, args, out>>

\* The bundle verify_documents builds from the three extracted records.
BuiltBundle(l) == DocumentBundle(l.invoice_data[1], l.po_data[1], l.pod_data[1])

\* Step 5: build the bundle, run the validation engine and return.
Validate ==
    /\ pc = "validate"
    /\ calls' = Append(calls, "run_full_verification")
    /\ LET bundle == BuiltBundle(loc)
           verification == run_full_verification(bundle, <<>>, svc.confidence_threshold)
       IN  Return(ForensicAuditResult(verification, loc.duplicate_result, loc.did_result,
                                      <<bundle>>, loc.invoice_hash, loc.po_hash,
                                      loc.pod_hash))
    /\ UNCHANGED <<svc, req, loc, issued, mint, args, out>>

(***************************************************************************)
(* State outside a running call.                                           *)
(***************************************************************************)
NoService == [xrpl |-> "None", did |-> "None", confidence_threshold |-> 70]

ServiceIdle ==
    /\ pc = "idle" /\ req = <<>> /\ loc = NoLocals /\ calls = <<>> /\ ret = <<>>
    /\ issued = <<>> /\ mint = <<>>

(***************************************************************************)
(* SpecRules: each validation rule, and run_full_verification, applied to  *)
(* an input drawn from the sets above.                                     *)
(***************************************************************************)
InitRules ==
    /\ svc = NoService
    /\ ServiceIdle
    /\ args \in RuleArgs("validate_amount_authorization", AmountBundles, {<<>>}, {70})
           \cup RuleArgs("validate_date_sequence", DateBundles, {<<>>}, {70})
           \cup RuleArgs("validate_quantity_match", QuantityBundles, {<<>>}, {70})
           \cup RuleArgs("collect_review_flags", ConfidenceBundles, {<<>>}, Thresholds)
           \cup RuleArgs("run_full_verification", VerifyBundles, HistoricalAverages, {70})
    /\ out = <<>>

ApplyAmountAuthorization ==
    /\ args.fn = "validate_amount_authorization"
    /\ out = <<>>
    /\ out' = << validate_amount_authorization(args.bundle.invoice,
                                               args.bundle.purchase_order) >>
    /\ UNCHANGED <<svc, pc, req, loc, calls, ret, issued, mint, args>>

ApplyDateSequence ==
    /\ args.fn = "validate_date_sequence"
    /\ out = <<>>
    /\ out' = << validate_date_sequence(args.bundle.purchase_order,
                                        args.bundle.proof_of_delivery,
                                        args.bundle.invoice) >>
    /\ UNCHANGED <<svc, pc, req, loc, calls, ret, issued, mint, args>>

ApplyQuantityMatch ==
    /\ args.fn = "validate_quantity_match"
    /\ out = <<>>
    /\ out' = << validate_quantity_match(args.bundle.proof_of_delivery,
                                         args.bundle.invoice) >>
    /\ UNCHANGED <<svc, pc, req, loc, calls, ret, issued, mint, args>>

ApplyReviewFlags ==
    /\ args.fn = "collect_review_flags"
    /\ out = <<>>
    /\ out' = << collect_review_flags(args.bundle, args.confidence_threshold) >>
    /\ UNCHANGED <<svc, pc, req, loc, calls, ret, issued, mint, args>>

ApplyFullVerification ==
    /\ args.fn = "run_full_verification"
    /\ out = <<>>
    /\ out' = << run_full_verification(args.bundle, args.historical_average,
                                       args.confidence_threshold) >>
    /\ UNCHANGED <<svc, pc, req, loc, calls, ret, issued, mint, args>>

NextRules ==
    \/ ApplyAmountAuthorization
    \/ ApplyDateSequence
    \/ ApplyQuantityMatch
    \/ ApplyReviewFlags
    \/ ApplyFullVerification

SpecRules == InitRules /\ [][NextRules]_vars

Returned(fn) == args.fn = fn /\ out # <<>>


(***************************************************************************)
(* Spec: one ForensicService, composed with any of the collaborators, and  *)
(* a call of verify_documents followed stage by stage.                     *)
(***************************************************************************)
Init ==
    /\ svc \in [xrpl : XrplKinds, did : DidKinds, confidence_threshold : {70}]
    /\ ServiceIdle
    /\ args = <<>>
    /\ out = <<>>

Next ==
    \/ Call
    \/ ComputeHashes
    \/ CheckDuplicate
    \/ VerifyDid
    \/ ExtractInvoice
    \/ ExtractPurchaseOrder
    \/ ExtractProofOfDelivery
    \/ Validate

Spec == Init /\ [][Next]_vars

(***************************************************************************)
(* api/routes/verification.py, api/routes/mint.py                          *)
(***************************************************************************)
ALLOWED_TYPES == {"application/pdf", "image/png", "image/jpeg", "image/jpg"}

\* get_forensic_service(): the process-wide service of the routes.
RouteService == [xrpl |-> "XRPLService", did |-> "DIDVerifier", confidence_threshold |-> 70]

\* verification_id = str(uuid4()): an id no earlier response carries.
FreshId(log) == 1 + Cardinality({ k \in 1..Len(log) : log[k].code = 200 })

\* POST /verification/verify up to the call of the service: the uploads are
\* screened (400 on a disallowed content type or an empty document), then
\* verify_documents is awaited with check_duplicate=True.
RouteVerify ==
    /\ pc = "idle"
    /\ Len(issued) < MaxVerifications
    /\ \E r \in Requests("route", ContentTriples, {TRUE}),
          content_type \in {"application/pdf", "text/plain"} :
         IF \/ content_type \notin ALLOWED_TYPES
            \/ r.invoice = EMPTY \/ r.purchase_order = EMPTY \/ r.proof_of_delivery = EMPTY
         THEN /\ issued' = Append(issued, [code |-> 400, verification_id |-> 0,
                                           status |-> "", can_mint |-> FALSE])
              /\ UNCHANGED <<pc, req, loc, ret>>
         ELSE /\ req' = <<r>>
              /\ loc' = NoLocals
              /\ ret' = <<>>
              /\ pc' = "hash"
              /\ UNCHANGED issued
    /\ UNCHANGED <<svc, calls, mint, args, out>>

\* POST /verification/verify after the service call: 500 if it raised, else
\* the response with a fresh verification_id.  can_mint is the eligibility of
\* the audit result the response was built from.
RouteRespond ==
    /\ pc \in {"returned", "raised"}
    /\ req[1].via = "route"
    /\ issued' = Append(issued,
          IF ret[1].raised
          THEN [code |-> 500, verification_id |-> 0, status |-> "", can_mint |-> FALSE]
          ELSE [code |-> 200, verification_id |-> FreshId(issued),
                status |-> ret[1].result[1].verification.status,
                can_mint |-> can_mint(ret[1].result[1])])
    /\ pc' = "idle"
    /\ req' = <<>>
    /\ loc' = NoLocals
    /\ calls' = <<>>
    /\ ret' = <<>>
    /\ UNCHANGED <<svc, mint, args, out>>

\* POST /mint/prepare: prepare_mint_transaction(request).  The XRPL service may
\* fail to initialise (500); otherwise the payload is built from sample data.
PrepareMint ==
    /\ pc = "idle"
    /\ \E verification_id \in 1..(MaxVerifications + 1), wallet_address \in Wallets,
          discount_percent \in {4, 50}, xrpl_ok \in BOOLEAN :
         mint' = << IF ~xrpl_ok
                    THEN [code |-> 500, verification_id |-> verification_id,
                          transaction_type |-> "", account |-> "",
                          face_value |-> 0, sale_price |-> 0]
                    ELSE [code |-> 200, verification_id |-> verification_id,
                          transaction_type |-> "NFTokenMint", account |-> wallet_address,
                          face_value |-> 800000,
                          sale_price |-> 8000 * (100 - discount_percent)] >>
    /\ UNCHANGED <<svc, pc, req, loc, calls, ret, issued, args, out>>

(***************************************************************************)
(* SpecApi: the two routes over the process-wide service.                  *)
(***************************************************************************)
InitApi ==
    /\ svc = RouteService
    /\ ServiceIdle
    /\ args = <<>>
    /\ out = <<>>

NextApi ==
    \/ RouteVerify
    \/ ComputeHashes
    \/ CheckDuplicate
    \/ VerifyDid
    \/ ExtractInvoice
    \/ ExtractPurchaseOrder
    \/ ExtractProofOfDelivery
    \/ Validate
    \/ RouteRespond
    \/ PrepareMint

SpecApi == InitApi /\ [][NextApi]_vars

(***************************************************************************)
(* Properties of the validation engine (under SpecRules).                  *)
(***************************************************************************)
AnyCheckFailed(result) == \E i \in 1..Len(result.checks) : ~result.checks[i].passed
AnyErrorAnomaly(result) ==
    \E i \in 1..Len(result.anomalies) : result.anomalies[i].severity = "error"

\* C1: run_full_verification decides the status by strict precedence: FAILED
\* if one of the five checks failed or an anomaly has severity "error";
\* otherwise REQUIRES_REVIEW if there is a review flag; otherwise PASSED.  It
\* never returns PENDING or PROCESSING.
C1_StatusPrecedence ==
    Returned("run_full_verification") =>
        LET r == out[1] IN
        /\ Len(r.checks) = 5
        /\ r.status = IF AnyCheckFailed(r) \/ AnyErrorAnomaly(r) THEN "FAILED"
                      ELSE IF r.review_flags # <<>> THEN "REQUIRES_REVIEW"
                      ELSE "PASSED"
        /\ r.status \notin {"PENDING", "PROCESSING"}

\* A bundle with a failed check and a low-confidence critical field was verified.
C1_Witness ==
    /\ Returned("run_full_verification")
    /\ AnyCheckFailed(out[1])
    /\ out[1].review_flags # <<>>
    /\ out[1].status = "FAILED"

\* The relative variance |invoice - PO| / PO is at most 20%, read as a number:
\* infinite for a non-zero difference over a PO amount of zero.
VarianceAtMost20(i, p) ==
    IF p > 0 THEN 100 * Abs(i - p) <= 20 * p
    ELSE IF p < 0 THEN TRUE
    ELSE i = p

AmountReason(r) == r.message[1]

C9_QuantityMatch ==
    Returned("validate_quantity_match") =>
        LET items == args.bundle.invoice.line_items
            q == args.bundle.proof_of_delivery.quantity_delivered.value
            billed == SumSeq([k \in 1..Len(items) |-> items[k].quantity.value])
        IN  out[1].passed <=> (Len(items) = 0 \/ Abs(q - billed) <= 1)

\* Delivered 200 against line items summing to 210 was checked and failed.
C9_Witness ==
    /\ Returned("validate_quantity_match")
    /\ args.bundle.proof_of_delivery.quantity_delivered.value = 20000
    /\ Len(args.bundle.invoice.line_items) = 2
    /\ total_quantity(args.bundle.invoice) = 21000
    /\ ~out[1].passed

CriticalPaths ==
    { "invoice.total_amount", "invoice.invoice_number",
      "purchase_order.authorized_amount", "purchase_order.po_number",
      "proof_of_delivery.quantity_delivered", "proof_of_delivery.delivery_date" }

FieldAt(bundle, path) ==
    CASE path = "invoice.total_amount" -> bundle.invoice.total_amount
      [] path = "invoice.invoice_number" -> bundle.invoice.invoice_number
      [] path = "purchase_order.authorized_amount" -> bundle.purchase_order.authorized_amount
      [] path = "purchase_order.po_number" -> bundle.purchase_order.po_number
      [] path = "proof_of_delivery.quantity_delivered" ->
             bundle.proof_of_delivery.quantity_delivered
      [] path = "proof_of_delivery.delivery_date" -> bundle.proof_of_delivery.delivery_date

\* C10: collect_review_flags returns exactly the paths of the six critical
\* fields whose confidence is strictly below the threshold, each once; no other
\* field is flagged whatever its confidence.
C10_ReviewFlags ==
    Returned("collect_review_flags") =>
        LET flags == out[1] IN
        /\ { flags[k] : k \in 1..Len(flags) }
             = { path \in CriticalPaths :
                   FieldAt(args.bundle, path).confidence < args.confidence_threshold }
        /\ Cardinality({ flags[k] : k \in 1..Len(flags) }) = Len(flags)

\* A critical field exactly at the threshold and every other field at
\* confidence 0: only the critical field below the threshold was flagged.
C10_Witness ==
    /\ Returned("collect_review_flags")
    /\ args.confidence_threshold = 70
    /\ args.bundle.invoice.total_amount.confidence = 70
    /\ args.bundle.invoice.invoice_number.confidence = 69
    /\ args.bundle.invoice.invoice_date.confidence = 0
    /\ args.bundle.purchase_order.authorized_amount.confidence = 70
    /\ args.bundle.purchase_order.po_number.confidence = 70
    /\ args.bundle.proof_of_delivery.quantity_delivered.confidence = 70
    /\ args.bundle.proof_of_delivery.delivery_date.confidence = 70
    /\ out[1] = <<"invoice.invoice_number">>


(***************************************************************************)
(* Properties of the orchestrator (under Spec) and of the routes (under    *)
(* SpecApi).                                                               *)
(***************************************************************************)
HasReturned == pc = "returned" /\ ret # <<>> /\ ~ret[1].raised
Result == ret[1].result[1]

Invoked(stage) == \E k \in 1..Len(calls) : calls[k] = stage

ShortCircuited ==
    /\ HasReturned
    /\ Result.verification.status = "FAILED"
    /\ Result.verification.checks = <<>>
    /\ Result.verification.anomalies = <<>>
    /\ Result.bundle = <<>>

\* C2: for every ForensicAuditResult returned by verify_documents, can_mint is
\* true exactly when the verification status is PASSED or REQUIRES_REVIEW.
C2_CanMintIffEligibleStatus ==
    HasReturned =>
        (can_mint(Result) <=> Result.verification.status \in {"PASSED", "REQUIRES_REVIEW"})

\* C3: prepare_mint_transaction answers with a payload only for a
\* verification_id that names an earlier verification whose result is
\* mint-eligible.
C3_MintOnlyEligibleVerification ==
    (mint # <<>> /\ mint[1].code = 200) =>
        \E k \in 1..Len(issued) :
            /\ issued[k].code = 200
            /\ issued[k].verification_id = mint[1].verification_id
            /\ issued[k].can_mint

PipelineOrder ==
    << "compute_document_hash", "compute_document_hash", "compute_document_hash",
       "check_duplicate", "verify_wallet", "extract_invoice", "extract_purchase_order",
       "extract_proof_of_delivery", "run_full_verification" >>

IsPrefix(s, t) == Len(s) <= Len(t) /\ \A k \in 1..Len(s) : s[k] = t[k]

\* The stages invoked so far are an initial part of the pipeline order, with
\* the duplicate check and the DID check each present or left out.
StagesInOrder ==
    \E skipped \in SUBSET {"check_duplicate", "verify_wallet"} :
        IsPrefix(calls, SelectSeq(PipelineOrder, LAMBDA stage : stage \notin skipped))

DuplicateReported ==
    /\ req # <<>>
    /\ req[1].check_duplicate
    /\ svc.xrpl # "None"
    /\ loc.duplicate_result # <<>>
    /\ loc.duplicate_result[1].is_duplicate

DidUnverified ==
    /\ req # <<>>
    /\ req[1].verify_did
    /\ svc.did # "None"
    /\ loc.did_result # <<>>
    /\ ~is_verified(loc.did_result[1])

C6_HardFailureReturnsFailed ==
    /\ pc # "raised"
    /\ (loc.hard_failure # "" /\ ret # <<>>) => ShortCircuited

(***************************************************************************)
(* domain/hashing.py: compute_bundle_hash.  Hash strings are sequences of  *)
(* one-character strings, ordered as Python orders str (by code point).    *)
(***************************************************************************)
MaxHashCalls == 2    \* calls of compute_bundle_hash on one triple of hashes

\* ord(c) for the characters of the hash strings
Ord(c) ==
    CASE c = "0" -> 48 [] c = "1" -> 49 [] c = "2" -> 50 [] c = "5" -> 53
      [] c = "6" -> 54 [] c = ":" -> 58 [] c = "A" -> 65 [] c = "H" -> 72
      [] c = "S" -> 83 [] c = "a" -> 97 [] c = "d" -> 100 [] c = "f" -> 102
      [] c = "h" -> 104 [] c = "m" -> 109 [] c = "s" -> 115 [] c = "|" -> 124

\* a < b for two str values
RECURSIVE StrLess(_, _)
StrLess(a, b) ==
    IF b = <<>> THEN FALSE
    ELSE IF a = <<>> THEN TRUE
    ELSE IF Head(a) # Head(b) THEN Ord(Head(a)) < Ord(Head(b))
    ELSE StrLess(Tail(a), Tail(b))

\* sorted(list of str)
RECURSIVE StrInsert(_, _)
StrInsert(x, sorted_list) ==
    IF sorted_list = <<>> THEN <<x>>
    ELSE IF StrLess(x, Head(sorted_list)) THEN <<x>> \o sorted_list
    ELSE <<Head(sorted_list)>> \o StrInsert(x, Tail(sorted_list))
RECURSIVE StrSorted(_)
StrSorted(list) == IF list = <<>> THEN <<>> ELSE StrInsert(Head(list), StrSorted(Tail(list)))

\* "|".join(list)
RECURSIVE StrJoinBar(_)
StrJoinBar(list) ==
    IF list = <<>> THEN <<>>
    ELSE IF Len(list) = 1 THEN Head(list)
    ELSE Head(list) \o <<"|">> \o StrJoinBar(Tail(list))

SHA256_PREFIX == <<"s","h","a","2","5","6",":">>

\* f"sha256:{hashlib.sha256(combined.encode()).hexdigest()}": the digest is
\* named by what was hashed, so that two digests agree exactly when their
\* inputs do.
Sha256Of(combined) == [prefix |-> SHA256_PREFIX, sha256_of |-> combined]

HashRaised == [raised |-> TRUE, value |-> <<>>]
HashReturned(v) == [raised |-> FALSE, value |-> <<v>>]

\* compute_bundle_hash joining the hashes in argument order, without sorting.
compute_bundle_hash_unsorted(invoice_hash, po_hash, pod_hash) ==
    IF \E h \in {invoice_hash, po_hash, pod_hash} : ~StartsWithAt(h, 1, SHA256_PREFIX)
    THEN HashRaised
    ELSE HashReturned(Sha256Of(StrJoinBar(<<invoice_hash, po_hash, pod_hash>>)))

\* compute_bundle_hash(invoice_hash, po_hash, pod_hash)
compute_bundle_hash(invoice_hash, po_hash, pod_hash) ==
    IF \E h \in {invoice_hash, po_hash, pod_hash} : ~StartsWithAt(h, 1, SHA256_PREFIX)
    THEN HashRaised
    ELSE LET sorted_hashes == StrSorted(<<invoice_hash, po_hash, pod_hash>>)
             combined == StrJoinBar(sorted_hashes)
         IN  HashReturned(Sha256Of(combined))

\* Hash strings handed to compute_bundle_hash: four with the prefix (one a
\* prefix of another, one the bare prefix) and three without it.
HashStrings ==
    { SHA256_PREFIX \o <<"0","a">>, SHA256_PREFIX \o <<"f","1">>,
      SHA256_PREFIX \o <<"0">>, SHA256_PREFIX,
      <<"m","d","5",":","0","a">>, <<"S","H","A","2","5","6",":","0","a">>, <<>> }

ArgumentOrders == { p \in [1..3 -> 1..3] : \A i, j \in 1..3 : p[i] = p[j] => i = j }

InitHash ==
    /\ svc = NoService
    /\ ServiceIdle
    /\ args \in [fn : {"compute_bundle_hash"}, hashes : HashStrings \X HashStrings \X HashStrings]
    /\ out = <<>>

\* One more call of compute_bundle_hash, with the three hashes in some order.
CallBundleHash ==
    /\ Len(out) < MaxHashCalls
    /\ \E order \in ArgumentOrders :
         out' = Append(out, [order |-> order,
                             result |-> compute_bundle_hash(args.hashes[order[1]],
                                                            args.hashes[order[2]],
                                                            args.hashes[order[3]])])
    /\ UNCHANGED <<svc, pc, req, loc, calls, ret, issued, mint, args>>

NextHash == CallBundleHash

SpecHash == InitHash /\ [][NextHash]_vars

AllPrefixed == \A k \in 1..3 : StartsWithAt(args.hashes[k], 1, SHA256_PREFIX)

\* C11: compute_bundle_hash is independent of argument order: every two calls
\* on the same three "sha256:"-prefixed hashes, in whatever order, return the
\* same hash; if an argument lacks the "sha256:" prefix the call raises
\* instead of returning a hash.
C11_BundleHashOrderIndependent ==
    /\ \A i, j \in 1..Len(out) : out[i].result = out[j].result
    /\ \A i \in 1..Len(out) : out[i].result.raised <=> ~AllPrefixed

\* bundle_hash(a, b, c) and bundle_hash(c, a, b) were both computed for three
\* different prefixed hashes.
C11_Witness ==
    /\ Len(out) = 2
    /\ AllPrefixed
    /\ Cardinality({args.hashes[1], args.hashes[2], args.hashes[3]}) = 3
    /\ out[1].order = <<1, 2, 3>>
    /\ out[2].order = <<3, 1, 2>>
    /\ ~out[1].result.raised

(***************************************************************************)
(* services/ocr/normalize.py: FieldNormalizer.  Texts are sequences of     *)
(* one-character strings; confidences are integer percents; a Decimal is   *)
(* a coefficient and a scale (value = coefficient / 10^scale) with the     *)
(* trailing zeros of the fraction dropped, so that equal records are equal *)
(* numbers.  A currency sign outside ASCII is one element named in words.  *)
(***************************************************************************)
DIGITS == <<"0","1","2","3","4","5","6","7","8","9">>

IsDigit(c) == \E i \in 1..10 : DIGITS[i] = c

DigitValue(c) == (CHOOSE i \in 1..10 : DIGITS[i] = c) - 1

\* OCR_CHAR_FIXES
OCR_CHAR_FIXES ==
    [ c \in {"S","s","O","o","l","I","B","Z","g","G"} |->
        CASE c = "S" -> "5" [] c = "s" -> "5" [] c = "O" -> "0" [] c = "o" -> "0"
          [] c = "l" -> "1" [] c = "I" -> "1" [] c = "B" -> "8" [] c = "Z" -> "2"
          [] c = "g" -> "9" [] c = "G" -> "6" ]

\* CURRENCY_SYMBOLS
CURRENCY_SYMBOLS ==
    << <<"$">>, <<"EURO SIGN">>, <<"POUND SIGN">>, <<"YEN SIGN">>, <<"RUPEE SIGN">>,
       <<"C","H","F">>, <<"U","S","D">>, <<"E","U","R">>, <<"G","B","P">> >>

DigitChars == { DIGITS[i] : i \in 1..10 }

\* The character class [\dSsOolIBZgG,.\-] of _fix_ocr_errors
NumericSectionChars == DigitChars \cup DOMAIN OCR_CHAR_FIXES \cup {",", ".", "-"}

\* fix_numeric_section(match): every wrong character of the section replaced
fix_numeric_section(section) ==
    [ i \in 1..Len(section) |->
        IF section[i] \in DOMAIN OCR_CHAR_FIXES THEN OCR_CHAR_FIXES[section[i]]
        ELSE section[i] ]

\* Length of the longest prefix of s made of characters of the class
PrefixLen(s, class) ==
    IF \A i \in 1..Len(s) : s[i] \in class THEN Len(s)
    ELSE (CHOOSE i \in 1..Len(s) : s[i] \notin class /\ \A j \in 1..(i - 1) : s[j] \in class) - 1

\* FieldNormalizer._fix_ocr_errors(text): re.sub over the maximal runs of the
\* character class, each run replaced by fix_numeric_section of it.
RECURSIVE fix_ocr_errors(_)
fix_ocr_errors(text) ==
    IF text = <<>> THEN <<>>
    ELSE LET n == PrefixLen(text, NumericSectionChars)
         IN  IF n = 0 THEN <<Head(text)>> \o fix_ocr_errors(Tail(text))
             ELSE fix_numeric_section(SubSeq(text, 1, n))
                      \o fix_ocr_errors(SubSeq(text, n + 1, Len(text)))

\* s.replace(c, r) for one character c and a string r
RECURSIVE StrReplaceChar(_, _, _)
StrReplaceChar(s, c, r) ==
    IF s = <<>> THEN <<>>
    ELSE (IF Head(s) = c THEN r ELSE <<Head(s)>>) \o StrReplaceChar(Tail(s), c, r)

\* s.rindex(c), counted from 1; 0 when c does not occur
StrRIndex(s, c) ==
    IF \E i \in 1..Len(s) : s[i] = c
    THEN CHOOSE i \in 1..Len(s) : s[i] = c /\ \A j \in (i + 1)..Len(s) : s[j] # c
    ELSE 0

StrCount(s, c) == Cardinality({ i \in 1..Len(s) : s[i] = c })

\* re.sub(r"[^\d.]", "", s)
StrDigitsAndDots(s) == SelectSeq(s, LAMBDA c : IsDigit(c) \/ c = ".")

RECURSIVE DigitsToNat(_)
DigitsToNat(s) ==
    IF s = <<>> THEN 0 ELSE 10 * DigitsToNat(SubSeq(s, 1, Len(s) - 1)) + DigitValue(s[Len(s)])

RECURSIVE DecimalNormal(_, _)
DecimalNormal(coefficient, scale) ==
    IF scale > 0 /\ coefficient % 10 = 0 THEN DecimalNormal(coefficient \div 10, scale - 1)
    ELSE [kind |-> "finite", coefficient |-> coefficient, scale |-> scale]

DecimalZero == DecimalNormal(0, 0)
DecimalInfinity == [kind |-> "Infinity", coefficient |-> 1, scale |-> 0]
DecimalNaN == [kind |-> "NaN", coefficient |-> 0, scale |-> 0]

\* Decimal(s) for the strings the normalizer hands it: an optional sign, then
\* digits with at most one decimal point, or inf / infinity / nan in any case.
\* valid = FALSE stands for decimal.InvalidOperation.
DecimalOf(s) ==
    LET signed == s # <<>> /\ Head(s) \in {"+", "-"}
        sign == IF signed /\ Head(s) = "-" THEN -1 ELSE 1
        body == IF signed THEN Tail(s) ELSE s
        dot == StrRIndex(body, ".")
        whole == IF dot = 0 THEN body ELSE SubSeq(body, 1, dot - 1)
        fraction == IF dot = 0 THEN <<>> ELSE SubSeq(body, dot + 1, Len(body))
    IN  IF /\ \A i \in 1..Len(body) : IsDigit(body[i]) \/ body[i] = "."
           /\ StrCount(body, ".") <= 1
           /\ Len(whole) + Len(fraction) >= 1
        THEN [valid |-> TRUE,
              value |-> DecimalNormal(sign * DigitsToNat(whole \o fraction), Len(fraction))]
        ELSE IF StrLower(body) \in {<<"i","n","f">>, <<"i","n","f","i","n","i","t","y">>}
        THEN [valid |-> TRUE, value |-> [DecimalInfinity EXCEPT !.coefficient = sign]]
        ELSE IF StrLower(body) = <<"n","a","n">>
        THEN [valid |-> TRUE, value |-> DecimalNaN]
        ELSE [valid |-> FALSE, value |-> DecimalZero]

\* ExtractedField(value=..., confidence=..., raw_text=...): __post_init__
\* raises ValueError unless 0.0 <= confidence <= 1.0.
NormalizedField(value, confidence, raw_text) ==
    IF 0 <= confidence /\ confidence <= 100
    THEN [raised |-> FALSE,
          field |-> << [value |-> value, confidence |-> confidence, raw_text |-> raw_text] >>]
    ELSE [raised |-> TRUE, field |-> <<>>]

\* normalize_amount up to the string handed to Decimal()
amount_cleaned(text) ==
    LET stripped == StrStrip(RemoveAll(StrStrip(text), CURRENCY_SYMBOLS))
        fixed == fix_ocr_errors(stripped)
        comma == StrRIndex(fixed, ",")
        period == StrRIndex(fixed, ".")
        grouped ==
            IF comma > 0 /\ period > 0
            THEN IF comma > period
                 THEN StrReplaceChar(StrReplaceChar(fixed, ".", <<>>), ",", <<".">>)
                 ELSE StrReplaceChar(fixed, ",", <<>>)
            ELSE IF comma > 0
            THEN IF StrCount(fixed, ",") = 1 /\ Len(fixed) - comma = 2
                 THEN StrReplaceChar(fixed, ",", <<".">>)
                 ELSE StrReplaceChar(fixed, ",", <<>>)
            ELSE fixed
    IN  StrDigitsAndDots(grouped)

\* The try/except of normalize_amount: failed = the except branch was taken.
amount_parsed(text) ==
    LET parsed == DecimalOf(amount_cleaned(text))
    IN  IF parsed.valid THEN [failed |-> FALSE, value |-> parsed.value]
        ELSE [failed |-> TRUE, value |-> DecimalZero]

\* FieldNormalizer.normalize_amount(text, confidence)
normalize_amount(text, confidence) ==
    NormalizedField(amount_parsed(text).value, confidence, text)

\* normalize_quantity up to the string handed to Decimal(): the match of
\* r"[\d,]+\.?\d*" at the start of the text if there is one, commas removed.
quantity_cleaned(text) ==
    LET fixed == fix_ocr_errors(StrStrip(text))
        head == PrefixLen(fixed, DigitChars \cup {","})
        point == IF head < Len(fixed) /\ fixed[head + 1] = "." THEN 1 ELSE 0
        tail == PrefixLen(SubSeq(fixed, head + point + 1, Len(fixed)), DigitChars)
        matched == IF head >= 1 THEN SubSeq(fixed, 1, head + point + tail) ELSE fixed
    IN  StrReplaceChar(matched, ",", <<>>)

\* The try/except of normalize_quantity: a NaN raises InvalidOperation at
\* "value < 0" inside the try; a negative value is replaced by abs(value).
quantity_parsed(text) ==
    LET parsed == DecimalOf(quantity_cleaned(text))
    IN  IF ~parsed.valid \/ parsed.value.kind = "NaN"
        THEN [failed |-> TRUE, value |-> DecimalZero]
        ELSE [failed |-> FALSE,
              value |-> [parsed.value EXCEPT !.coefficient = Abs(parsed.value.coefficient)]]

\* FieldNormalizer.normalize_quantity(text, confidence)
normalize_quantity(text, confidence) ==
    NormalizedField(quantity_parsed(text).value, confidence, text)

(***************************************************************************)
(* normalize_date: datetime.strptime over DATE_FORMATS, then the loose     *)
(* day/month/year search.  A date is a record of year, month and day.      *)
(***************************************************************************)
FALLBACK_CONFIDENCE_TENTHS == 8    \* confidence * 0.8

\* DATE_FORMATS, each a sequence of directives and literal characters
DATE_FORMATS ==
    << <<"%Y", "-", "%m", "-", "%d">>,
       <<"%d", "/", "%m", "/", "%Y">>,
       <<"%m", "/", "%d", "/", "%Y">>,
       <<"%d", "-", "%m", "-", "%Y">>,
       <<"%m", "-", "%d", "-", "%Y">>,
       <<"%d", " ", "%b", " ", "%Y">>,
       <<"%d", " ", "%B", " ", "%Y">>,
       <<"%b", " ", "%d", ",", " ", "%Y">>,
       <<"%B", " ", "%d", ",", " ", "%Y">> >>

\* calendar.month_abbr and calendar.month_name (C locale), lower case
MONTH_ABBR ==
    << <<"j","a","n">>, <<"f","e","b">>, <<"m","a","r">>, <<"a","p","r">>, <<"m","a","y">>, <<"j","u","n">>,
       <<"j","u","l">>, <<"a","u","g">>, <<"s","e","p">>, <<"o","c","t">>, <<"n","o","v">>, <<"d","e","c">> >>
MONTH_NAME ==
    << <<"j","a","n","u","a","r","y">>, <<"f","e","b","r","u","a","r","y">>, <<"m","a","r","c","h">>, <<"a","p","r","i","l">>, <<"m","a","y">>, <<"j","u","n","e">>,
       <<"j","u","l","y">>, <<"a","u","g","u","s","t">>, <<"s","e","p","t","e","m","b","e","r">>, <<"o","c","t","o","b","e","r">>, <<"n","o","v","e","m","b","e","r">>, <<"d","e","c","e","m","b","e","r">> >>

IsLeap(year) == (year % 4 = 0 /\ year % 100 # 0) \/ year % 400 = 0

DaysInMonth(year, month) ==
    IF month = 2 THEN (IF IsLeap(year) THEN 29 ELSE 28)
    ELSE IF month \in {4, 6, 9, 11} THEN 30 ELSE 31

Date(year, month, day) == [year |-> year, month |-> month, day |-> day]

\* datetime.date(year, month, day) does not raise ValueError
ValidDate(year, month, day) ==
    /\ 1 <= year /\ year <= 9999
    /\ 1 <= month /\ month <= 12
    /\ 1 <= day /\ day <= DaysInMonth(year, month)

AllDigits(s) == \A i \in 1..Len(s) : IsDigit(s[i])

\* The ways one directive or literal of a format matches text from position
\* pos: the position after the match and the field it sets.
DirectiveMatches(text, pos, directive) ==
    LET rest == SubSeq(text, pos, Len(text))
        taken(n) == SubSeq(rest, 1, n)
        number(n) == DigitsToNat(taken(n))
        digits(n) == Len(rest) >= n /\ AllDigits(taken(n))
        names(list) ==
            { [next |-> pos + Len(list[i]), field |-> "month", value |-> i] :
                i \in { k \in 1..12 : /\ Len(rest) >= Len(list[k])
                                      /\ StrLower(taken(Len(list[k]))) = list[k] } }
    IN  CASE directive = "%Y" ->
               IF digits(4)
               THEN { [next |-> pos + 4, field |-> "year", value |-> number(4)] }
               ELSE {}
          [] directive = "%m" ->
               { [next |-> pos + n, field |-> "month", value |-> number(n)] :
                   n \in { k \in {1, 2} :
                            /\ digits(k)
                            /\ 1 <= number(k) /\ number(k) <= 12
                            /\ (k = 1 => rest[1] # "0") } }
          [] directive = "%d" ->
               { [next |-> pos + n, field |-> "day", value |-> number(n)] :
                   n \in { k \in {1, 2} :
                            /\ digits(k)
                            /\ 1 <= number(k) /\ number(k) <= 31
                            /\ (k = 1 => rest[1] # "0") } }
               \cup
               ( IF Len(rest) >= 2 /\ rest[1] = " " /\ IsDigit(rest[2]) /\ rest[2] # "0"
                 THEN { [next |-> pos + 2, field |-> "day", value |-> DigitValue(rest[2])] }
                 ELSE {} )
          [] directive = "%b" -> names(MONTH_ABBR)
          [] directive = "%B" -> names(MONTH_NAME)
          [] directive = " " ->
               { [next |-> pos + n, field |-> "none", value |-> 0] :
                   n \in 1..PrefixLen(rest, {" "}) }
          [] OTHER ->
               IF Len(rest) >= 1 /\ rest[1] = directive
               THEN { [next |-> pos + 1, field |-> "none", value |-> 0] }
               ELSE {}

\* The field assignments with which the rest of the format matches the rest
\* of the text exactly (no unconverted data remains).
RECURSIVE StrptimeFrom(_, _, _, _)
StrptimeFrom(text, format, pos, fields) ==
    IF format = <<>> THEN (IF pos = Len(text) + 1 THEN {fields} ELSE {})
    ELSE UNION { StrptimeFrom(text, Tail(format), m.next,
                              IF m.field = "none" THEN fields
                              ELSE [fields EXCEPT ![m.field] = m.value])
                 : m \in DirectiveMatches(text, pos, Head(format)) }

\* datetime.strptime(text, format).date(); ok = FALSE stands for ValueError
strptime(text, format) ==
    LET found == { f \in StrptimeFrom(text, format, 1, Date(1900, 1, 1)) :
                      ValidDate(f.year, f.month, f.day) }
    IN  IF found = {} THEN [ok |-> FALSE, value |-> Date(1900, 1, 1)]
        ELSE [ok |-> TRUE, value |-> CHOOSE f \in found : TRUE]

DATE_SEPARATORS == {"/", "-", "."}

\* The match of (\d{1,2})[/\-.](\d{1,2})[/\-.](\d{2,4}) that starts at
\* position pos, as the groups (d, m, y); <<>> if there is none.
LooseMatchAt(text, pos) ==
    LET rest == SubSeq(text, pos, Len(text))
        short(s) == IF Len(s) >= 2 /\ IsDigit(s[1]) /\ IsDigit(s[2]) THEN 2
                    ELSE IF Len(s) >= 1 /\ IsDigit(s[1]) THEN 1 ELSE 0
        dn == short(rest)
        after_d == SubSeq(rest, dn + 2, Len(rest))
        mn == short(after_d)
        after_m == SubSeq(after_d, mn + 2, Len(after_d))
        run == PrefixLen(after_m, DigitChars)
        yn == IF run > 4 THEN 4 ELSE run
    IN  IF /\ dn >= 1 /\ Len(rest) > dn /\ rest[dn + 1] \in DATE_SEPARATORS
           /\ mn >= 1 /\ Len(after_d) > mn /\ after_d[mn + 1] \in DATE_SEPARATORS
           /\ yn >= 2
        THEN << [d |-> DigitsToNat(SubSeq(rest, 1, dn)),
                 m |-> DigitsToNat(SubSeq(after_d, 1, mn)),
                 y |-> DigitsToNat(SubSeq(after_m, 1, yn))] >>
        ELSE <<>>

\* re.search(...): the match at the leftmost position that has one
LooseSearch(text) ==
    LET starts == { p \in 1..Len(text) : LooseMatchAt(text, p) # <<>> }
    IN  IF starts = {} THEN <<>>
        ELSE LooseMatchAt(text, CHOOSE p \in starts : \A q \in starts : p <= q)

\* The first format of DATE_FORMATS, from index k on, under which the text
\* parses and the field is constructed; 0 if there is none.
RECURSIVE FirstFormat(_, _, _)
FirstFormat(cleaned, confidence, k) ==
    IF k > Len(DATE_FORMATS) THEN 0
    ELSE IF strptime(cleaned, DATE_FORMATS[k]).ok
            /\ ~NormalizedField(0, confidence, <<>>).raised
    THEN k
    ELSE FirstFormat(cleaned, confidence, k + 1)

\* The fallback's confidence left at the input confidence.
fallback_confidence_unchanged(confidence) == confidence

\* confidence * 0.8 (confidences are multiples of 5 percent, so this is exact)
fallback_confidence(confidence) == (confidence * FALLBACK_CONFIDENCE_TENTHS) \div 10

\* The failure result carrying the input confidence, as normalize_amount does.
failed_confidence_kept(confidence) == confidence

\* confidence=0.0 of the failure result
failed_confidence(confidence) == 0

\* The return statement normalize_date reaches, and what it returns:
\* "explicit" (a format of DATE_FORMATS parsed), "fallback" (the loose search
\* gave a valid date, day/month or month/day) or "failed" (today's date).
\* The ExtractedField constructors of the first two are inside try blocks
\* that catch their ValueError.
date_outcome(text, confidence, today) ==
    LET cleaned == fix_ocr_errors(StrStrip(text))
        k == FirstFormat(cleaned, confidence, 1)
        g == LooseSearch(cleaned)
        year == IF g[1].y < 100 THEN g[1].y + 2000 ELSE g[1].y
        lowered == fallback_confidence(confidence)
        constructed == ~NormalizedField(0, lowered, <<>>).raised
    IN  IF k > 0
        THEN [path |-> "explicit", value |-> strptime(cleaned, DATE_FORMATS[k]).value,
              confidence |-> confidence]
        ELSE IF g # <<>> /\ ValidDate(year, g[1].m, g[1].d) /\ constructed
        THEN [path |-> "fallback", value |-> Date(year, g[1].m, g[1].d),
              confidence |-> lowered]
        ELSE IF g # <<>> /\ ValidDate(year, g[1].d, g[1].m) /\ constructed
        THEN [path |-> "fallback", value |-> Date(year, g[1].d, g[1].m),
              confidence |-> lowered]
        ELSE [path |-> "failed", value |-> today, confidence |-> failed_confidence(confidence)]

\* FieldNormalizer.normalize_date(text, confidence), called on the day `today`
normalize_date(text, confidence, today) ==
    LET o == date_outcome(text, confidence, today)
    IN  NormalizedField(o.value, o.confidence, text)

(***************************************************************************)
(* SpecNormalize: normalize_amount, normalize_quantity and normalize_date  *)
(* applied to OCR texts.                                                   *)
(***************************************************************************)

\* Texts handed to normalize_amount
AmountTexts ==
    { <<"1","0","0">>,
      <<"8","0","0","0",".","0","0">>,
      <<"1",",","2","3","4",".","5","6">>,
      <<"1",".","2","3","4",",","5","6">>,
      <<"$","1",",","2","3","4",".","S","6">>,
      <<"1","2",",","5","0">>,
      <<"1",",","2","3","4">>,
      <<"1",",","2","3","4",",","5","6","7">>,
      <<"U","S","D"," ","1","0","0">>,
      <<"S","G","D"," ","1","0","0">>,
      <<"T","o","t","a","l"," ","1","0","0">>,
      <<"1","0","0"," ","S","G","D">>,
      <<"E","U","R"," ","5","O">>,
      <<" ","4","2"," ">>,
      <<"-","5">>,
      <<"a","b","c">>,
      <<>>,
      <<"1",".","2",".","3">>,
      <<".">>,
      <<"N","/","A">>,
      <<"EURO SIGN","1","2",",","5","0">> }

\* Texts handed to normalize_quantity
QuantityTexts ==
    { <<"2","0","0">>,
      <<"2","0","0"," ","p","c","s">>,
      <<"1",",","0","0","0">>,
      <<"2","O","0">>,
      <<"1","2",".","5"," ","k","g">>,
      <<"-","5">>,
      <<"+","5">>,
      <<".","5">>,
      <<",">>,
      <<"a","b","c">>,
      <<>>,
      <<"n","a","n">>,
      <<"i","n","f">>,
      <<"p","c","s"," ","5">>,
      <<"1","e","3">>,
      <<"Q","t","y"," ","7">> }

\* 2024-MM-15 (%Y-%m-%d), by month
IsoDateText ==
    << <<"2","0","2","4","-","0","1","-","1","5">>,
       <<"2","0","2","4","-","0","2","-","1","5">>,
       <<"2","0","2","4","-","0","3","-","1","5">>,
       <<"2","0","2","4","-","0","4","-","1","5">>,
       <<"2","0","2","4","-","0","5","-","1","5">>,
       <<"2","0","2","4","-","0","6","-","1","5">>,
       <<"2","0","2","4","-","0","7","-","1","5">>,
       <<"2","0","2","4","-","0","8","-","1","5">>,
       <<"2","0","2","4","-","0","9","-","1","5">>,
       <<"2","0","2","4","-","1","0","-","1","5">>,
       <<"2","0","2","4","-","1","1","-","1","5">>,
       <<"2","0","2","4","-","1","2","-","1","5">> >>
IsoDateTexts == { IsoDateText[m] : m \in 1..12 }

\* '15 Mon 2024' (%d %b %Y), by month
AbbrDateText ==
    << <<"1","5"," ","J","a","n"," ","2","0","2","4">>,
       <<"1","5"," ","F","e","b"," ","2","0","2","4">>,
       <<"1","5"," ","M","a","r"," ","2","0","2","4">>,
       <<"1","5"," ","A","p","r"," ","2","0","2","4">>,
       <<"1","5"," ","M","a","y"," ","2","0","2","4">>,
       <<"1","5"," ","J","u","n"," ","2","0","2","4">>,
       <<"1","5"," ","J","u","l"," ","2","0","2","4">>,
       <<"1","5"," ","A","u","g"," ","2","0","2","4">>,
       <<"1","5"," ","S","e","p"," ","2","0","2","4">>,
       <<"1","5"," ","O","c","t"," ","2","0","2","4">>,
       <<"1","5"," ","N","o","v"," ","2","0","2","4">>,
       <<"1","5"," ","D","e","c"," ","2","0","2","4">> >>
AbbrDateTexts == { AbbrDateText[m] : m \in 1..12 }

\* '15 Month 2024' (%d %B %Y), by month
NameDateText ==
    << <<"1","5"," ","J","a","n","u","a","r","y"," ","2","0","2","4">>,
       <<"1","5"," ","F","e","b","r","u","a","r","y"," ","2","0","2","4">>,
       <<"1","5"," ","M","a","r","c","h"," ","2","0","2","4">>,
       <<"1","5"," ","A","p","r","i","l"," ","2","0","2","4">>,
       <<"1","5"," ","M","a","y"," ","2","0","2","4">>,
       <<"1","5"," ","J","u","n","e"," ","2","0","2","4">>,
       <<"1","5"," ","J","u","l","y"," ","2","0","2","4">>,
       <<"1","5"," ","A","u","g","u","s","t"," ","2","0","2","4">>,
       <<"1","5"," ","S","e","p","t","e","m","b","e","r"," ","2","0","2","4">>,
       <<"1","5"," ","O","c","t","o","b","e","r"," ","2","0","2","4">>,
       <<"1","5"," ","N","o","v","e","m","b","e","r"," ","2","0","2","4">>,
       <<"1","5"," ","D","e","c","e","m","b","e","r"," ","2","0","2","4">> >>
NameDateTexts == { NameDateText[m] : m \in 1..12 }

\* 'Mon 5, 2024' (%b %d, %Y), by month
UsDateText ==
    << <<"J","a","n"," ","5",","," ","2","0","2","4">>,
       <<"F","e","b"," ","5",","," ","2","0","2","4">>,
       <<"M","a","r"," ","5",","," ","2","0","2","4">>,
       <<"A","p","r"," ","5",","," ","2","0","2","4">>,
       <<"M","a","y"," ","5",","," ","2","0","2","4">>,
       <<"J","u","n"," ","5",","," ","2","0","2","4">>,
       <<"J","u","l"," ","5",","," ","2","0","2","4">>,
       <<"A","u","g"," ","5",","," ","2","0","2","4">>,
       <<"S","e","p"," ","5",","," ","2","0","2","4">>,
       <<"O","c","t"," ","5",","," ","2","0","2","4">>,
       <<"N","o","v"," ","5",","," ","2","0","2","4">>,
       <<"D","e","c"," ","5",","," ","2","0","2","4">> >>
UsDateTexts == { UsDateText[m] : m \in 1..12 }

\* Numeric, loose, invalid and unparseable date texts
OtherDateTexts ==
    { <<"1","5","/","0","1","/","2","0","2","4">>,
      <<"0","1","/","1","5","/","2","0","2","4">>,
      <<"1","5","-","0","1","-","2","0","2","4">>,
      <<"0","1","-","1","5","-","2","0","2","4">>,
      <<"1","5",".","0","1",".","2","0","2","4">>,
      <<"1","5","/","0","1","/","2","4">>,
      <<"2","0","2","4",".","0","1",".","1","5">>,
      <<"3","1","/","0","2","/","2","0","2","4">>,
      <<"D","a","t","e",":"," ","1","5","/","0","1","/","2","0","2","4">>,
      <<"a","b","c">>,
      <<>>,
      <<"2","0","2","4","-","0","2","-","2","9">>,
      <<"2","0","2","3","-","0","2","-","2","9">>,
      <<"2","0","2","4","-","O","1","-","1","5">>,
      <<"0","0","0","0","-","0","1","-","0","1">>,
      <<"2","0","2","4","-","1","2","-","3","1">>,
      <<"2","9"," ","F","e","b"," ","2","0","2","4">>,
      <<"D","e","c","e","m","b","e","r"," ","2","5",","," ","2","0","2","4">>,
      <<"2","0","2","4","-","1","-","5">>,
      <<"1","5"," "," ","J","a","n"," ","2","0","2","4">>,
      <<"9","9","/","9","9","/","2","0","2","4">>,
      <<"1","/","2","/","3">> }

DateTexts == IsoDateTexts \cup AbbrDateTexts \cup NameDateTexts \cup UsDateTexts \cup OtherDateTexts

\* OCR confidences in percent: within [0, 1] and, last, above 1
Confidences == {0, 5, 50, 85, 100, 120}

\* date.today() on the day of the call
Todays == { Date(2026, 11, 1), Date(2024, 1, 15) }

NormalizeArgs(fn, texts, todays) ==
    [fn : {fn}, text : texts, confidence : Confidences, today : todays]

InitNormalize ==
    /\ svc = NoService
    /\ ServiceIdle
    /\ args \in NormalizeArgs("normalize_amount", AmountTexts, {Date(2026, 11, 1)})
           \cup NormalizeArgs("normalize_quantity", QuantityTexts, {Date(2026, 11, 1)})
           \cup NormalizeArgs("normalize_date", DateTexts, Todays)
    /\ out = <<>>

ApplyNormalizeAmount ==
    /\ args.fn = "normalize_amount"
    /\ out = <<>>
    /\ out' = << normalize_amount(args.text, args.confidence) >>
    /\ UNCHANGED <<svc, pc, req, loc, calls, ret, issued, mint, args>>

ApplyNormalizeQuantity ==
    /\ args.fn = "normalize_quantity"
    /\ out = <<>>
    /\ out' = << normalize_quantity(args.text, args.confidence) >>
    /\ UNCHANGED <<svc, pc, req, loc, calls, ret, issued, mint, args>>

ApplyNormalizeDate ==
    /\ args.fn = "normalize_date"
    /\ out = <<>>
    /\ out' = << normalize_date(args.text, args.confidence, args.today) >>
    /\ UNCHANGED <<svc, pc, req, loc, calls, ret, issued, mint, args>>

NextNormalize ==
    \/ ApplyNormalizeAmount
    \/ ApplyNormalizeQuantity
    \/ ApplyNormalizeDate

SpecNormalize == InitNormalize /\ [][NextNormalize]_vars

(***************************************************************************)
(* Properties of the normalizer (under SpecNormalize).                     *)
(***************************************************************************)
NormalizedFieldOut == out[1].field[1]

ConfidenceInRange == 0 <= args.confidence /\ args.confidence <= 100

\* C12: normalize_amount and normalize_quantity never raise for a confidence
\* in [0, 1], and on a parse failure they return value 0, confidence exactly
\* 0.0 and the original text as raw_text, whatever the input confidence.
C12_ParseFailureZeroConfidence ==
    ((Returned("normalize_amount") \/ Returned("normalize_quantity")) /\ ConfidenceInRange) =>
        LET failed == IF args.fn = "normalize_amount" THEN amount_parsed(args.text).failed
                      ELSE quantity_parsed(args.text).failed
        IN  /\ ~out[1].raised
            /\ failed => /\ NormalizedFieldOut.value = DecimalZero
                         /\ NormalizedFieldOut.confidence = 0
                         /\ NormalizedFieldOut.raw_text = args.text

DatePath == date_outcome(args.text, args.confidence, args.today).path

C16_AsStated ==
    (Returned("normalize_date") /\ DatePath = "fallback") =>
        2 * NormalizedFieldOut.confidence = args.confidence

\* C16 (amended): when no explicit format parses the text and the loose
\* day/month/year fallback succeeds, the returned confidence is exactly 0.8
\* times the input confidence.
C16_FallbackConfidence ==
    (Returned("normalize_date") /\ DatePath = "fallback") =>
        /\ ~out[1].raised
        /\ 10 * NormalizedFieldOut.confidence = 8 * args.confidence

\* "15.01.2024" at confidence 0.5 was parsed by the fallback: 0.4.
C16_Witness ==
    /\ Returned("normalize_date")
    /\ args.text = <<"1","5",".","0","1",".","2","0","2","4">>
    /\ args.confidence = 50
    /\ DatePath = "fallback"
    /\ NormalizedFieldOut.value = Date(2024, 1, 15)
    /\ NormalizedFieldOut.confidence = 40

\* C17: for a valid calendar date written in ISO form or in a long-form
\* month spelling of the format list, for each of the twelve months,
\* normalize_date returns exactly that date with the input confidence
\* unchanged, through the explicit-format path.
C17_ExplicitFormatsParse ==
    (Returned("normalize_date") /\ ConfidenceInRange) =>
        \A m \in 1..12 :
            LET written == IF args.text \in {IsoDateText[m], AbbrDateText[m], NameDateText[m]}
                           THEN <<Date(2024, m, 15)>>
                           ELSE IF args.text = UsDateText[m] THEN <<Date(2024, m, 5)>>
                           ELSE <<>>
            IN  written # <<>> =>
                    /\ DatePath = "explicit"
                    /\ NormalizedFieldOut.value = written[1]
                    /\ NormalizedFieldOut.confidence = args.confidence

IsLetter(c) == \E i \in 1..26 : UPPERCASE[i] = c \/ LOWERCASE[i] = c

\* Amount texts made of a word, a blank and a number, with the number's value.
WordThenNumber ==
    { [text |-> <<"S","G","D"," ","1","0","0">>, word |-> <<"S","G","D">>, value |-> DecimalNormal(100, 0)],
      [text |-> <<"T","o","t","a","l"," ","1","0","0">>, word |-> <<"T","o","t","a","l">>, value |-> DecimalNormal(100, 0)] }

\* C18: the character-substitution pass leaves a run made only of letters
\* unchanged, so that normalize_amount("<letters> <number>") yields the value
\* of <number>.
C18_LettersUntouched ==
    (Returned("normalize_amount") /\ ConfidenceInRange) =>
        \A w \in WordThenNumber :
            args.text = w.text =>
                /\ \A i \in 1..Len(w.word) : IsLetter(w.word[i])
                /\ fix_ocr_errors(w.word) = w.word
                /\ NormalizedFieldOut.value = w.value

(***************************************************************************)
(* SpecLineItems: run_full_verification on a bundle whose line items are   *)
(* what ForensicService._extract_line_items makes of the rows of a table   *)
(* (services/forensic.py), through normalize_quantity and                  *)
(* normalize_amount.  A cell is <<>> (absent) or <<text>>.                 *)
(***************************************************************************)
MaxRows == 2    \* data rows of the line-item table

CELL_CONFIDENCE == 90    \* min_confidence given to the cells of a row, in percent

\* Rows of a line-item table: a consistent row, a row whose quantity cell
\* reads "inf" and that has no price cell, a row of unparseable cells, and a
\* row without a quantity cell.
LineItemRows ==
    { [qty |-> <<<<"2","0","0">>>>, price |-> <<<<"4","0",".","0","0">>>>, amount |-> <<<<"8","0","0","0",".","0","0">>>>],
      [qty |-> <<<<"i","n","f">>>>, price |-> <<>>, amount |-> <<<<"8","0","0","0",".","0","0">>>>],
      [qty |-> <<<<"a","b","c">>>>, price |-> <<<<"4","0",".","0","0">>>>, amount |-> <<<<"N","/","A">>>>],
      [qty |-> <<>>, price |-> <<<<"4","0",".","0","0">>>>, amount |-> <<<<"8","0","0","0",".","0","0">>>>] }

\* The LineItem of one row that has a quantity cell and an amount cell
extract_line_item(row) ==
    [ description |-> ExtractedField("item", 0),
      quantity    |-> normalize_quantity(row.qty[1], CELL_CONFIDENCE).field[1],
      unit_price  |-> IF row.price # <<>>
                      THEN normalize_amount(row.price[1], CELL_CONFIDENCE).field[1]
                      ELSE normalize_amount(<<"0">>, 0).field[1],
      total       |-> normalize_amount(row.amount[1], CELL_CONFIDENCE).field[1] ]

\* ForensicService._extract_line_items(table): the rows without a quantity
\* cell or an amount cell are passed over.
extract_line_items(rows) ==
    LET kept == SelectSeq(rows, LAMBDA row : row.qty # <<>> /\ row.amount # <<>>)
    IN  [ i \in 1..Len(kept) |-> extract_line_item(kept[i]) ]

\* Decimal * Decimal: Infinity times zero signals InvalidOperation.
decimal_multiply(a, b) ==
    IF \/ a.kind = "Infinity" /\ b.kind = "finite" /\ b.coefficient = 0
       \/ b.kind = "Infinity" /\ a.kind = "finite" /\ a.coefficient = 0
    THEN [raised |-> TRUE, value |-> DecimalNaN]
    ELSE IF a.kind = "Infinity" \/ b.kind = "Infinity"
    THEN [raised |-> FALSE, value |-> DecimalInfinity]
    ELSE [raised |-> FALSE,
          value |-> DecimalNormal(a.coefficient * b.coefficient, a.scale + b.scale)]

\* LineItem.calculated_total of an extracted line item
extracted_calculated_total(item) == decimal_multiply(item.quantity.value, item.unit_price.value)

\* A finite Decimal of at most two decimal places, in hundredths
DecimalHundredths(d) ==
    CASE d.scale = 0 -> d.coefficient * 100
      [] d.scale = 1 -> d.coefficient * 10
      [] d.scale = 2 -> d.coefficient

\* An extracted line item of finite values, as the line item of the rules
LineItemInHundredths(item) ==
    [ description |-> item.description,
      quantity    |-> ExtractedField(DecimalHundredths(item.quantity.value), item.quantity.confidence),
      unit_price  |-> ExtractedField(DecimalHundredths(item.unit_price.value), item.unit_price.confidence),
      total       |-> ExtractedField(DecimalHundredths(item.total.value), item.total.confidence) ]

AllFinite(item) ==
    /\ item.quantity.value.kind = "finite"
    /\ item.unit_price.value.kind = "finite"
    /\ item.total.value.kind = "finite"

\* run_full_verification on the bundle with the extracted line items: the
\* InvalidOperation of a line item's quantity * unit_price, signalled in
\* detect_anomalies (item.has_math_error), propagates to the caller.  (In the
\* rows of the model an infinite quantity comes with a unit price of zero.)
run_extracted_verification(bundle, items, historical_average, confidence_threshold) ==
    CASE \E i \in 1..Len(items) : extracted_calculated_total(items[i]).raised ->
           [raised |-> TRUE, result |-> <<>>]
      [] \A i \in 1..Len(items) : AllFinite(items[i]) ->
           [raised |-> FALSE,
            result |-> << run_full_verification(
                            [bundle EXCEPT !.invoice.line_items =
                                [i \in 1..Len(items) |-> LineItemInHundredths(items[i])]],
                            historical_average, confidence_threshold) >>]

\* Degenerate bundles: PO amount 0 or negative, invoice total 0, sentinel
\* identifiers and names at confidence 0.
DegenerateBundles ==
    { DocumentBundle(
        [BaseInvoice EXCEPT !.total_amount.value = i,
                            !.invoice_number = number,
                            !.line_items = <<>>],
        [BasePurchaseOrder EXCEPT !.authorized_amount.value = p,
                                  !.vendor_name = vendor],
        [BaseProofOfDelivery EXCEPT !.quantity_delivered.value = q])
      : i \in {0, 800000}, p \in {-100, 0, 800000}, q \in {0, 20000},
        number \in {ExtractedField("INV-2024-001", 95), ExtractedField("UNKNOWN", 0)},
        vendor \in {ExtractedField(NAME_ACME_UC, 90), ExtractedField(NAME_UNKNOWN, 0)} }

DegenerateAverages == {<<>>, <<-100>>, <<0>>, <<100000>>}

InitLineItems ==
    /\ svc = NoService
    /\ ServiceIdle
    /\ args \in [ fn : {"run_full_verification"},
                  bundle : DegenerateBundles,
                  historical_average : DegenerateAverages,
                  confidence_threshold : {70},
                  rows : SeqsUpTo(LineItemRows, MaxRows),
                  line_items : {<<>>} ]
    /\ out = <<>>

\* _extract_invoice: line_items = self._extract_line_items(tables[0])
ExtractLineItems ==
    /\ args.line_items = <<>>
    /\ args' = [args EXCEPT !.line_items = << extract_line_items(args.rows) >>]
    /\ UNCHANGED <<svc, pc, req, loc, calls, ret, issued, mint, out>>

\* verify_documents: run_full_verification(bundle, ...)
VerifyExtracted ==
    /\ args.line_items # <<>>
    /\ out = <<>>
    /\ out' = << run_extracted_verification(args.bundle, args.line_items[1],
                                            args.historical_average,
                                            args.confidence_threshold) >>
    /\ UNCHANGED <<svc, pc, req, loc, calls, ret, issued, mint, args>>

NextLineItems ==
    \/ ExtractLineItems
    \/ VerifyExtracted

SpecLineItems == InitLineItems /\ [][NextLineItems]_vars

FIVE_CHECKS ==
    <<"quantity_match", "amount_authorization", "date_sequence", "line_item_sum",
      "party_names">>

\* C14: run_full_verification terminates without raising for every well-typed
\* bundle, degenerate ones included, and its result contains exactly the five
\* checks quantity_match, amount_authorization, date_sequence, line_item_sum,
\* party_names, in this order.
C14_NeverRaisesFiveChecks ==
    Returned("run_full_verification") =>
        /\ ~out[1].raised
        /\ LET checks == out[1].result[1].checks
           IN  [i \in 1..Len(checks) |-> checks[i].rule_name] = FIVE_CHECKS

(***************************************************************************)
(* SpecDidCache: one DIDVerifier (services/did.py) shared by verifications *)
(* running in parallel threads.  The class has no lock: a thread may be    *)
(* preempted between any two operations on the _cache dict, each of which  *)
(* is atomic.  pc, req, loc and ret are per thread; args holds the clock.  *)
(***************************************************************************)
MaxThreads == 2   \* verifications sharing the DIDVerifier
MaxNow == 2       \* the clock runs over 0 .. MaxNow
CacheTtl == 1     \* cache_ttl, in ticks of the clock

Threads == 1..MaxThreads

CachedWallets == {"rSME", "rBuyer"}

CachedStatuses == {"VERIFIED", "NOT_FOUND"}

\* self._cache: dict[str, tuple[DIDVerificationResult, datetime]]; the value
\* of a key is <<>> (key absent) or <<(result, cached_at)>>.
EmptyCache == [w \in CachedWallets |-> <<>>]

CacheEntry(result, cached_at) == [result |-> result, cached_at |-> cached_at]

\* Outcomes of _get_cached
CacheMiss == [kind |-> "miss"]
CacheHit(result) == [kind |-> "hit", result |-> result]
CacheKeyError == [kind |-> "KeyError"]

ThreadIdle(t) == pc[t] = "idle"

InitDidCache ==
    /\ svc = [xrpl |-> "None", did |-> "DIDVerifier", confidence_threshold |-> 70,
              cache_ttl |-> CacheTtl, _cache |-> EmptyCache]
    /\ pc = [t \in Threads |-> "idle"]
    /\ req = [t \in Threads |-> <<>>]
    /\ loc = [t \in Threads |-> <<>>]
    /\ ret = [t \in Threads |-> <<>>]
    /\ calls = <<>> /\ issued = <<>> /\ mint = <<>>
    /\ args = [fn |-> "_get_cached", now |-> 0]
    /\ out = <<>>

\* cached = self._get_cached(wallet_address): the call begins
GetCachedCall(t) ==
    /\ ThreadIdle(t)
    /\ \E w \in CachedWallets :
         /\ req' = [req EXCEPT ![t] = <<w>>]
         /\ pc' = [pc EXCEPT ![t] = "contains"]
    /\ loc' = [loc EXCEPT ![t] = <<>>]
    /\ ret' = [ret EXCEPT ![t] = <<>>]
    /\ UNCHANGED <<svc, calls, issued, mint, args, out>>

\* if wallet_address not in self._cache: return None
GetCachedContains(t) ==
    /\ pc[t] = "contains"
    /\ IF svc._cache[req[t][1]] = <<>>
       THEN /\ ret' = [ret EXCEPT ![t] = <<CacheMiss>>]
            /\ pc' = [pc EXCEPT ![t] = "idle"]
       ELSE /\ pc' = [pc EXCEPT ![t] = "getitem"]
            /\ UNCHANGED ret
    /\ UNCHANGED <<svc, req, loc, calls, issued, mint, args, out>>

\* result, cached_at = self._cache[wallet_address]
GetCachedGetItem(t) ==
    /\ pc[t] = "getitem"
    /\ IF svc._cache[req[t][1]] = <<>>
       THEN /\ ret' = [ret EXCEPT ![t] = <<CacheKeyError>>]
            /\ pc' = [pc EXCEPT ![t] = "raised"]
            /\ UNCHANGED loc
       ELSE /\ loc' = [loc EXCEPT ![t] = svc._cache[req[t][1]]]
            /\ pc' = [pc EXCEPT ![t] = "age"]
            /\ UNCHANGED ret
    /\ UNCHANGED <<svc, req, calls, issued, mint, args, out>>

\* age_seconds = (now - cached_at); if age_seconds > self.cache_ttl: ...
\* else return result
GetCachedAge(t) ==
    /\ pc[t] = "age"
    /\ IF args.now - loc[t][1].cached_at > svc.cache_ttl
       THEN /\ pc' = [pc EXCEPT ![t] = "delitem"]
            /\ UNCHANGED ret
       ELSE /\ ret' = [ret EXCEPT ![t] = <<CacheHit(loc[t][1].result)>>]
            /\ pc' = [pc EXCEPT ![t] = "idle"]
    /\ UNCHANGED <<svc, req, loc, calls, issued, mint, args, out>>

\* del self._cache[wallet_address]; return None
GetCachedDelItem(t) ==
    /\ pc[t] = "delitem"
    /\ IF svc._cache[req[t][1]] = <<>>
       THEN /\ ret' = [ret EXCEPT ![t] = <<CacheKeyError>>]
            /\ pc' = [pc EXCEPT ![t] = "raised"]
            /\ UNCHANGED svc
       ELSE /\ svc' = [svc EXCEPT !._cache[req[t][1]] = <<>>]
            /\ ret' = [ret EXCEPT ![t] = <<CacheMiss>>]
            /\ pc' = [pc EXCEPT ![t] = "idle"]
    /\ UNCHANGED <<req, loc, calls, issued, mint, args, out>>

\* self._cache_result(wallet_address, result)
CacheResult(t) ==
    /\ ThreadIdle(t)
    /\ \E w \in CachedWallets, status \in CachedStatuses :
         svc' = [svc EXCEPT !._cache[w] =
                    << CacheEntry(DIDVerificationResult(w, status), args.now) >>]
    /\ UNCHANGED <<pc, req, loc, calls, ret, issued, mint, args, out>>

\* self.clear_cache()
ClearCache(t) ==
    /\ ThreadIdle(t)
    /\ svc._cache # EmptyCache
    /\ svc' = [svc EXCEPT !._cache = EmptyCache]
    /\ UNCHANGED <<pc, req, loc, calls, ret, issued, mint, args, out>>

\* datetime.now(timezone.utc) advances
Tick ==
    /\ args.now < MaxNow
    /\ args' = [args EXCEPT !.now = @ + 1]
    /\ UNCHANGED <<svc, pc, req, loc, calls, ret, issued, mint, out>>

NextDidCache ==
    \/ \E t \in Threads : GetCachedCall(t)
    \/ \E t \in Threads : GetCachedContains(t)
    \/ \E t \in Threads : GetCachedGetItem(t)
    \/ \E t \in Threads : GetCachedAge(t)
    \/ \E t \in Threads : GetCachedDelItem(t)
    \/ \E t \in Threads : CacheResult(t)
    \/ \E t \in Threads : ClearCache(t)
    \/ Tick

SpecDidCache == InitDidCache /\ [][NextDidCache]_vars

\* C15: with one DIDVerifier shared by concurrent verifications, every
\* interleaving of _get_cached (its TTL eviction included), _cache_result and
\* clear_cache leaves each reader with a complete (result, timestamp) entry
\* or a clean cache miss: no reader fails with an error caused by a
\* concurrent eviction or clear of the wallet's entry.
C15_ReadersNeverFail ==
    \A t \in Threads :
        ret[t] # <<>> =>
            \/ ret[t][1] = CacheMiss
            \/ /\ ret[t][1].kind = "hit"
               /\ ret[t][1].result.wallet_address = req[t][1]
               /\ ret[t][1].result.status \in CachedStatuses

(***************************************************************************)
(* services/ocr/extractor.py: the regular expressions.  A pattern is a     *)
(* tree of records [op, chars, parts, min, max]; matching is the           *)
(* backtracking of Python's re module, as the list of the ways a pattern   *)
(* matches from a position, in the order the engine tries them.  Every     *)
(* pattern is compiled with re.IGNORECASE.  Offsets are counted from 0.    *)
(***************************************************************************)
UpperChar(c) ==
    IF \E i \in 1..Len(LOWERCASE) : LOWERCASE[i] = c
    THEN UPPERCASE[CHOOSE i \in 1..Len(LOWERCASE) : LOWERCASE[i] = c]
    ELSE c

\* The characters a character of a pattern matches under re.IGNORECASE:
\* 'i' and 'I' also match U+0130.
CaseFold(c) ==
    {c, LowerChar(c), UpperChar(c)} \cup (IF c \in {"i", "I"} THEN {DOTTED_CAPITAL_I} ELSE {})

ReNode(op, chars, parts, min, max) ==
    [op |-> op, chars |-> chars, parts |-> parts, min |-> min, max |-> max]

UNBOUNDED == -1

ReSet(chars) == ReNode("set", UNION { CaseFold(c) : c \in chars }, <<>>, 1, 1)
ReSeq(parts) == ReNode("seq", {}, parts, 1, 1)
ReAlt(parts) == ReNode("alt", {}, parts, 1, 1)
ReRep(body, min, max) == ReNode("rep", {}, <<body>>, min, max)
ReStar(body) == ReRep(body, 0, UNBOUNDED)
RePlus(body) == ReRep(body, 1, UNBOUNDED)
ReOpt(body) == ReRep(body, 0, 1)
ReGroup(body) == ReNode("group", {}, <<body>>, 1, 1)
ReLit(s) == ReSeq([i \in 1..Len(s) |-> ReSet({s[i]})])

\* \s, \d, [A-Z] and [A-Z0-9\-]
WHITESPACE == {" ", "\t", "\n"}
LetterChars == { UPPERCASE[i] : i \in 1..Len(UPPERCASE) }
IdentifierChars == LetterChars \cup DigitChars \cup {"-"}

\* A state of the matcher: the index of the next character and the span
\* of group 1, <<>> while the group has not taken part.
ReState(pos, g) == [pos |-> pos, g |-> g]

RECURSIVE ReMatch(_, _, _)
RECURSIVE ReMatchEach(_, _, _)
RECURSIVE ReMatchSeq(_, _, _)
RECURSIVE ReMatchAlt(_, _, _)
RECURSIVE ReMatchRep(_, _, _, _)
RECURSIVE ReMatchRepEach(_, _, _, _)

\* The ways re matches text from state st, first choice first
ReMatch(re, text, st) ==
    CASE re.op = "set" ->
           IF st.pos <= Len(text) /\ text[st.pos] \in re.chars
           THEN << ReState(st.pos + 1, st.g) >>
           ELSE <<>>
      [] re.op = "seq" -> ReMatchSeq(re.parts, text, <<st>>)
      [] re.op = "alt" -> ReMatchAlt(re.parts, text, st)
      [] re.op = "rep" -> ReMatchRep(re, 0, text, st)
      [] re.op = "group" ->
           LET inner == ReMatch(re.parts[1], text, st)
           IN  [i \in 1..Len(inner) |-> ReState(inner[i].pos, <<st.pos, inner[i].pos>>)]

ReMatchEach(re, text, states) ==
    IF Len(states) = 0 THEN <<>>
    ELSE ReMatch(re, text, Head(states)) \o ReMatchEach(re, text, Tail(states))

ReMatchSeq(parts, text, states) ==
    IF Len(parts) = 0 THEN states
    ELSE ReMatchSeq(Tail(parts), text, ReMatchEach(Head(parts), text, states))

ReMatchAlt(parts, text, st) ==
    IF Len(parts) = 0 THEN <<>>
    ELSE ReMatch(Head(parts), text, st) \o ReMatchAlt(Tail(parts), text, st)

\* A greedy repetition: one more iteration is tried before stopping.
ReMatchRep(re, count, text, st) ==
    LET once == IF re.max = UNBOUNDED \/ count < re.max
                THEN SelectSeq(ReMatch(re.parts[1], text, st), LAMBDA r : r.pos > st.pos)
                ELSE <<>>
    IN  ReMatchRepEach(re, count + 1, text, once)
          \o (IF count >= re.min THEN <<st>> ELSE <<>>)

ReMatchRepEach(re, count, text, states) ==
    IF Len(states) = 0 THEN <<>>
    ELSE ReMatchRep(re, count, text, Head(states))
           \o ReMatchRepEach(re, count, text, Tail(states))

\* re.finditer(pattern, text, re.IGNORECASE): the non-overlapping matches,
\* left to right, as [start, end, group1]; group1 is <<>> or <<value>>.
\* (No pattern of the module matches the empty string.)
\* The positions from which the pattern matches, at or after from
MatchStarts(re, text, from) ==
    { q \in from..Len(text) :
        LET ways == ReMatch(re, text, ReState(q, <<>>))
        IN  Len(ways) > 0 /\ ways[1].pos > q }

RECURSIVE ReFindIter(_, _, _)
ReFindIter(re, text, from) ==
    LET starts == MatchStarts(re, text, from)
    IN  IF starts = {} THEN <<>>
        ELSE LET q == CHOOSE q \in starts : \A r \in starts : q <= r
                 way == ReMatch(re, text, ReState(q, <<>>))[1]
             IN  << [start |-> q - 1, end |-> way.pos - 1,
                     group1 |-> IF Len(way.g) = 0 THEN <<>>
                                ELSE << SubSeq(text, way.g[1], way.g[2] - 1) >>] >>
                 \o ReFindIter(re, text, way.pos)

finditer(re, text) == ReFindIter(re, text, 1)

(***************************************************************************)
(* The identifier patterns of the module.                                  *)
(***************************************************************************)
ReSpaces == ReStar(ReSet(WHITESPACE))
ReColonSpaces == ReStar(ReSet({":"} \cup WHITESPACE))
ReMarks == ReStar(ReSet({"#", ":", "-"} \cup WHITESPACE))
ReDigit == ReSet(DigitChars)
ReIdentifier == ReGroup(RePlus(ReSet(IdentifierChars)))

INVOICE_NUMBER_PATTERNS ==
    << ReSeq(<<ReLit(<<"I","n","v","o","i","c","e">>), ReSpaces, ReLit(<<"N","o">>), ReSpaces, ReColonSpaces,
               ReGroup(ReRep(ReDigit, 5, UNBOUNDED))>>),
       ReSeq(<<ReLit(<<"I","n","v","o","i","c","e">>), ReSpaces, ReLit(<<"N","o">>), ReSpaces, ReColonSpaces,
               ReIdentifier>>),
       ReGroup(ReSeq(<<ReLit(<<"I","N","V">>), ReOpt(ReSet({"-"} \cup WHITESPACE)),
                       ReRep(ReDigit, 4, 4), ReOpt(ReSet({"-"} \cup WHITESPACE)),
                       ReRep(ReDigit, 3, UNBOUNDED)>>)),
       ReSeq(<<ReLit(<<"I","n","v","o","i","c","e">>), ReSpaces, ReOpt(ReSet({"#"})), ReSpaces, ReIdentifier>>),
       ReSeq(<<ReLit(<<"I","n","v","o","i","c","e">>), RePlus(ReSet(WHITESPACE)),
               ReAlt(<<ReLit(<<"N","o">>), ReLit(<<"N","u","m","b","e","r">>)>>), ReColonSpaces, ReIdentifier>>),
       ReSeq(<<ReSet({"#"}), ReSpaces,
               ReGroup(ReSeq(<<ReRep(ReSet(LetterChars), 2, 4), ReOpt(ReSet({"-"})),
                               ReRep(ReDigit, 4, UNBOUNDED)>>))>>) >>

PO_NUMBER_PATTERNS ==
    << ReSeq(<<ReLit(<<"P",".","O",".">>), ReSpaces, ReLit(<<"N","u","m","b","e","r">>), ReSpaces, ReColonSpaces,
               ReIdentifier>>),
       ReSeq(<<ReAlt(<<ReLit(<<"P","O">>), ReSeq(<<ReLit(<<"P","u","r","c","h","a","s","e">>), ReSpaces, ReLit(<<"O","r","d","e","r">>)>>)>>),
               ReMarks, ReIdentifier>>),
       ReSeq(<<ReLit(<<"P">>), ReOpt(ReSet({"."})), ReLit(<<"O">>), ReOpt(ReSet({"."})), ReSpaces,
               ReOpt(ReAlt(<<ReLit(<<"N","o">>), ReLit(<<"N","u","m","b","e","r">>), ReLit(<<"#">>)>>)),
               ReColonSpaces, ReIdentifier>>),
       ReSeq(<<ReLit(<<"O","r","d","e","r">>), ReSpaces,
               ReOpt(ReAlt(<<ReLit(<<"N","o">>), ReLit(<<"N","u","m","b","e","r">>), ReLit(<<"#">>)>>)),
               ReColonSpaces, ReIdentifier>>) >>

DELIVERY_REF_PATTERNS ==
    << ReSeq(<<ReLit(<<"D","e","l","i","v","e","r","y">>), RePlus(ReSet(WHITESPACE)), ReLit(<<"R","e","f">>), ReSpaces,
               ReColonSpaces, ReIdentifier>>),
       ReSeq(<<ReAlt(<<ReLit(<<"D","E","L">>), ReLit(<<"D","e","l","i","v","e","r","y">>), ReLit(<<"D","N">>)>>),
               ReMarks, ReIdentifier>>),
       ReSeq(<<ReLit(<<"D","e","l","i","v","e","r","y">>), RePlus(ReSet(WHITESPACE)),
               ReOpt(ReAlt(<<ReLit(<<"N","o","t","e">>), ReLit(<<"R","e","f">>), ReLit(<<"R","e","f","e","r","e","n","c","e">>)>>)),
               ReColonSpaces, ReIdentifier>>),
       ReSeq(<<ReAlt(<<ReLit(<<"R","e","c","e","i","p","t">>), ReLit(<<"R","e","c","e","i","v","e","d">>)>>), ReMarks, ReIdentifier>>) >>

(***************************************************************************)
(* SmartFieldExtractor._extract_with_patterns and the three identifier     *)
(* extractors in front of it.  Confidences are integer percents.           *)
(***************************************************************************)
BASE_CONFIDENCE == 85       \* confidence=0.85 of a PatternMatch
LABEL_BOOST == 10           \* match.confidence + 0.1
MAX_BOOSTED == 98           \* min(0.98, ...)
PROXIMITY_CHARS == 100      \* if distance < 100
MIN_VALUE_LENGTH == 2       \* len(value) >= 2

MinOf(a, b) == IF a < b THEN a ELSE b

\* str.find(p): the offset of the first occurrence, counted from 0, or -1
StrFind(s, p) ==
    LET occurrences == { i \in 1..(Len(s) + 1) : StartsWithAt(s, i, p) }
    IN  IF occurrences = {} THEN -1
        ELSE (CHOOSE i \in occurrences : \A j \in occurrences : i <= j) - 1

\* if value and len(value) >= 2
value_long_enough(value) == Len(value) >= MIN_VALUE_LENGTH

\* The PatternMatch objects of one pattern, in the order of re.finditer
PatternMatches(pattern, k, full_text) ==
    LET found == finditer(pattern, full_text)
        kept == SelectSeq(found, LAMBDA m : Len(m.group1) > 0 /\ value_long_enough(m.group1[1]))
    IN  [ i \in 1..Len(kept) |->
            [value |-> kept[i].group1[1], pattern |-> k, start |-> kept[i].start,
             end |-> kept[i].end, confidence |-> BASE_CONFIDENCE] ]

\* for pattern in patterns: for match in re.finditer(...): all_matches.append
RECURSIVE AllMatches(_, _, _)
AllMatches(patterns, k, full_text) ==
    IF k > Len(patterns) THEN <<>>
    ELSE PatternMatches(patterns[k], k, full_text) \o AllMatches(patterns, k + 1, full_text)

\* if distance < 100
within_proximity(distance) == distance < PROXIMITY_CHARS

\* for label in labels: ... match.confidence = min(0.98, match.confidence + 0.1)
RECURSIVE BoostByLabels(_, _, _)
BoostByLabels(full_text, labels, matches) ==
    IF Len(labels) = 0 THEN matches
    ELSE LET label_pos == StrFind(StrLower(full_text), StrLower(Head(labels)))
             boosted ==
                 IF label_pos = -1 THEN matches
                 ELSE [ i \in 1..Len(matches) |->
                          IF within_proximity(Abs(matches[i].start - label_pos))
                          THEN [matches[i] EXCEPT
                                  !.confidence = MinOf(MAX_BOOSTED, @ + LABEL_BOOST)]
                          ELSE matches[i] ]
         IN  BoostByLabels(full_text, Tail(labels), boosted)

\* max(all_matches, key=lambda m: m.confidence): the first of the largest
MaxByConfidence(matches) ==
    matches[CHOOSE i \in 1..Len(matches) :
              /\ \A j \in 1..Len(matches) : matches[j].confidence <= matches[i].confidence
              /\ \A j \in 1..(i - 1) : matches[j].confidence < matches[i].confidence]

extract_with_patterns(full_text, patterns, labels) ==
    LET all_matches == AllMatches(patterns, 1, full_text)
    IN  IF Len(all_matches) = 0
        THEN NormalizedField(<<"U","N","K","N","O","W","N">>, 0, <<>>)
        ELSE LET best == MaxByConfidence(BoostByLabels(full_text, labels, all_matches))
             IN  NormalizedField(best.value, best.confidence, best.value)

\* labels = labels or [...]
INVOICE_NUMBER_LABELS ==
    <<<<"i","n","v","o","i","c","e">>, <<"i","n","v">>, <<"i","n","v","o","i","c","e"," ","n","o">>, <<"i","n","v","o","i","c","e"," ","#">>, <<"i","n","v","o","i","c","e"," ","n","u","m","b","e","r">>>>
PO_NUMBER_LABELS == <<<<"p","o">>, <<"p","u","r","c","h","a","s","e"," ","o","r","d","e","r">>, <<"p","o"," ","#">>, <<"o","r","d","e","r">>>>
DELIVERY_REFERENCE_LABELS == <<<<"d","e","l","i","v","e","r","y">>, <<"d","e","l">>, <<"r","e","c","e","i","p","t">>, <<"r","e","f","e","r","e","n","c","e">>>>

LabelsOr(labels, default) == IF Len(labels) = 0 THEN default ELSE labels

extract_invoice_number(full_text, labels) ==
    extract_with_patterns(full_text, INVOICE_NUMBER_PATTERNS,
                          LabelsOr(labels, INVOICE_NUMBER_LABELS))

extract_po_number(full_text, labels) ==
    extract_with_patterns(full_text, PO_NUMBER_PATTERNS, LabelsOr(labels, PO_NUMBER_LABELS))

extract_delivery_reference(full_text, labels) ==
    extract_with_patterns(full_text, DELIVERY_REF_PATTERNS,
                          LabelsOr(labels, DELIVERY_REFERENCE_LABELS))

(***************************************************************************)
(* SmartFieldExtractor.extract_amount                                      *)
(***************************************************************************)
UNLABELED_CONFIDENCE == 85   \* all_amounts.append((amount, 0.85, raw_value))
LABELED_CONFIDENCE == 95     \* scored_amounts.append((amount, 0.95, raw_value))
FALLBACK_CONFIDENCE == 60    \* confidence=0.6 of the fallback
WINDOW_CHARS == 200          \* full_text[label_pos:label_pos + 200]

\* [\d,]+\.?\d{0,2}
ReAmountDigits ==
    ReSeq(<<RePlus(ReSet(DigitChars \cup {","})), ReOpt(ReSet({"."})), ReRep(ReDigit, 0, 2)>>)

AMOUNT_PATTERNS ==
    << ReSeq(<<ReLit(<<"S","$">>), ReSpaces, ReGroup(ReAmountDigits)>>),
       ReSeq(<<ReLit(<<"S","G","D">>), ReSpaces, ReGroup(ReAmountDigits)>>),
       ReSeq(<<ReLit(<<"S","S">>), ReGroup(ReAmountDigits)>>),
       ReSeq(<<ReSet({"$"}), ReSpaces, ReGroup(ReAmountDigits)>>),
       ReSeq(<<ReGroup(ReAmountDigits), ReSpaces,
               ReAlt(<<ReLit(<<"U","S","D">>), ReSeq(<<ReLit(<<"d","o","l","l","a","r">>), ReOpt(ReLit(<<"s">>))>>),
                       ReLit(<<"S","G","D">>)>>)>>),
       ReSeq(<<ReAlt(<<ReLit(<<"T","o","t","a","l">>), ReLit(<<"A","m","o","u","n","t">>), ReLit(<<"D","u","e">>), ReLit(<<"S","u","b","t","o","t","a","l">>),
                       ReLit(<<"B","a","l","a","n","c","e">>)>>),
               ReColonSpaces, ReStar(ReSet({"S", "$"})), ReSpaces, ReGroup(ReAmountDigits)>>),
       ReGroup(ReSeq(<<ReRep(ReDigit, 1, 3),
                       ReStar(ReSeq(<<ReSet({","}), ReRep(ReDigit, 3, 3)>>)),
                       ReOpt(ReSet({"."})), ReRep(ReDigit, 0, 2)>>)) >>

\* Decimal < Decimal, both finite
RECURSIVE PowerOfTen(_)
PowerOfTen(n) == IF n = 0 THEN 1 ELSE 10 * PowerOfTen(n - 1)

DecimalLess(a, b) ==
    a.coefficient * PowerOfTen(b.scale) < b.coefficient * PowerOfTen(a.scale)

\* The (amount, confidence, raw) triples one pattern finds in a text: the
\* matches whose cleaned group is not empty, not '.', parses and is positive.
PatternAmounts(pattern, text, confidence) ==
    LET found == finditer(pattern, text)
        cleaned(m) == StrStrip(StrRemove(StrRemove(m.group1[1], <<",">>), <<"$">>))
        positive(m) ==
            /\ Len(m.group1) > 0
            /\ Len(cleaned(m)) > 0
            /\ cleaned(m) # <<".">>
            /\ DecimalOf(cleaned(m)).valid
            /\ DecimalLess(DecimalZero, DecimalOf(cleaned(m)).value)
        kept == SelectSeq(found, positive)
    IN  [ i \in 1..Len(kept) |->
            [amount |-> DecimalOf(cleaned(kept[i])).value, confidence |-> confidence,
             raw |-> kept[i].group1[1]] ]

\* for pattern in AMOUNT_PATTERNS: for match in re.finditer(pattern, text, ...)
RECURSIVE AmountsFrom(_, _, _)
AmountsFrom(k, text, confidence) ==
    IF k > Len(AMOUNT_PATTERNS) THEN <<>>
    ELSE PatternAmounts(AMOUNT_PATTERNS[k], text, confidence)
           \o AmountsFrom(k + 1, text, confidence)

\* window_text = full_text[label_pos:label_pos + 200]
window_text(full_text, label_pos) ==
    SubSeq(full_text, label_pos + 1, MinOf(Len(full_text), label_pos + WINDOW_CHARS))

\* for label in labels: ... scored_amounts.append(...)
RECURSIVE ScoredAmounts(_, _)
ScoredAmounts(full_text, labels) ==
    IF Len(labels) = 0 THEN <<>>
    ELSE LET label_pos == StrFind(StrLower(full_text), StrLower(Head(labels)))
         IN  (IF label_pos = -1 THEN <<>>
              ELSE AmountsFrom(1, window_text(full_text, label_pos), LABELED_CONFIDENCE))
               \o ScoredAmounts(full_text, Tail(labels))

\* max(amounts, key=lambda x: x[0]): the first of the largest
MaxByAmount(amounts) ==
    amounts[CHOOSE i \in 1..Len(amounts) :
              /\ \A j \in 1..Len(amounts) : ~DecimalLess(amounts[i].amount, amounts[j].amount)
              /\ \A j \in 1..(i - 1) : DecimalLess(amounts[j].amount, amounts[i].amount)]

extract_amount(full_text, labels, prefer_largest) ==
    LET all_amounts == AmountsFrom(1, full_text, UNLABELED_CONFIDENCE)
        scored_amounts == ScoredAmounts(full_text, labels)
    IN  IF Len(all_amounts) = 0
        THEN NormalizedField(DecimalZero, 0, <<>>)
        ELSE IF Len(scored_amounts) > 0
        THEN LET best == IF prefer_largest THEN MaxByAmount(scored_amounts)
                         ELSE MaxByConfidence(scored_amounts)
             IN  NormalizedField(best.amount, best.confidence, best.raw)
        ELSE LET best == MaxByAmount(all_amounts)
             IN  NormalizedField(best.amount, FALLBACK_CONFIDENCE, best.raw)

(***************************************************************************)
(* SpecExtract: each extractor applied to the full text of a document.     *)
(* Pad(n) is n characters that no pattern and no label matches.            *)
(***************************************************************************)
Pad(n) == [i \in 1..n |-> "_"]

IdentifierDocuments ==
    { <<>>, <<"R","e","f"," ","1","2","3","4","5">>, <<"I","n","v","o","i","c","e"," ","N","o",":"," ","0","0","0","0","0","0","0","3">>, <<"#","A","B","-","1","2","3","4"," ","I","n","v","o","i","c","e"," ","N","o",":"," ","0","0","0","0","0","0","0","3">>,
      <<"I","n","v","o","i","c","e"," ","#","7">>, <<"I","N","V","O","I","C","E"," ","N","O",":"," ","1","2","3","4","5">>,
      <<"I","n","v","o","i","c","e">> \o Pad(92) \o <<"#","A","B","-","1","2","3","4">>, <<"I","n","v","o","i","c","e">> \o Pad(93) \o <<"#","A","B","-","1","2","3","4">>,
      <<"#","A","B","-","1","2","3","4">> \o Pad(91) \o <<"i","n","v","o","i","c","e">>, <<"#","A","B","-","1","2","3","4">> \o Pad(92) \o <<"i","n","v","o","i","c","e">>,
      <<"I","N","V","-","2","0","2","4","-","0","0","1">> \o Pad(100) \o <<"r","e","f"," ","#","A","B","-","1","2","3","4">>, <<"I","N","V","-","2","0","2","4","-","0","0","1"," ","I","N","V","-","2","0","2","5","-","0","0","2">>,
      <<"P","O","-","2","0","2","4","-","0","0","1">>, <<"P",".","O","."," ","N","u","m","b","e","r"," ","P","O","-","S","G","-","2","0","2","3","-","0","0","1">>, <<"P","u","r","c","h","a","s","e"," ","O","r","d","e","r"," ","#","5","5">>, <<"P","O",":"," ","7">>,
      <<"D","e","l","i","v","e","r","y"," ","R","e","f"," ",":"," ","D","E","L","-","S","G","-","2","0","2","3","-","0","0","1">>, <<"D","e","l","i","v","e","r","y",":"," ","X">>, <<"D","N","#","4","4">>, <<"R","e","c","e","i","p","t"," ","8","8">>,
      <<"O","r","d","e","r"," ","N","o",":"," ","A","1">> \o Pad(95) \o <<"P","O","-","9">> \o Pad(3) \o <<"p","o"," ","#">>,
      <<DOTTED_CAPITAL_I>> \o <<"_","I","n","v","o","i","c","e">> \o Pad(93) \o <<"#","A","B","-","1","2","3","4">>,
      <<DOTTED_CAPITAL_I>> \o <<"_","I","n","v","o","i","c","e">> \o Pad(92) \o <<"#","A","B","-","1","2","3","4">>,
      <<DOTTED_CAPITAL_I>> \o <<"n","v","o","i","c","e"," ","N","o",":"," ">> \o <<DOTTED_CAPITAL_I>> \o <<"1","2">> }

\* labels: <<>> stands for None, replaced by the extractor's own list
IdentifierLabelLists ==
    { <<>>, <<<<"i","n","v","o","i","c","e">>>>, <<<<"r","e","f">>>>, <<<<"I","n","v","o","i","c","e">>, <<"p","o">>, <<"d","e","l">>>>,
      <<<<"i","n","v","o","i","c","e">>, <<"i","n","v","o","i","c","e">>, <<"r","e","f">>>>, <<<<"z","z","z">>>> }

AmountDocuments ==
    { <<>>, <<"n","o"," ","n","u","m","b","e","r","s">>, <<"T","o","t","a","l",":"," ","S","$","1",",","2","3","4",".","5","6">>, <<"8","0","0","0",".","0","0"," ","U","S","D">>, <<"T","o","t","a","l"," ","1","0","0"," ","S","u","b","t","o","t","a","l"," ","2","5","0">>,
      <<"S","u","b","t","o","t","a","l"," ","2","5","0"," ","T","o","t","a","l"," ","1","0","0">>, <<"$","5"," ","a","n","d"," ","$","7">>, <<"A","m","o","u","n","t"," ","D","u","e",":"," ","$","0",".","0","0">>, <<"0">>, <<"0",".","0","0","1">>,
      <<"T","o","t","a","l">> \o Pad(190) \o <<"$","9","9","9">>, <<"T","o","t","a","l">> \o Pad(194) \o <<"1","2","3","4">>,
      <<"T","o","t","a","l">> \o Pad(200) \o <<"$","9","9","9">>, <<"$","9",",","9","9","9",".","9","9">> \o Pad(10) \o <<"T","o","t","a","l",":"," ","1","2",".","5","0">>,
      <<"T","o","t","a","l",":"," ",",">>, <<"T","o","t","a","l",":"," ",".">>, <<"S","G","D"," ","4","5"," ","T","O","T","A","L"," ","S","S","1","2">>, <<"B","a","l","a","n","c","e",":"," ","S","$"," ","3",",","0","0","0"," ","d","o","l","l","a","r","s">>,
      <<"1",",","2","3","4",".","5","6","7">>, <<"T","o","t","a","l"," ","5">> \o Pad(200) \o <<"T","o","t","a","l"," ","9","0","0">>, <<"D","u","e"," ","1","0"," ","T","o","t","a","l"," ","2","0"," ","D","u","e"," ","3","0">>,
      <<"S","$","1",",","0",",","0">>, <<"$"," ","1",".">>, <<"1","2"," ","d","o","l","l","a","r","s"," ","7"," ","U","S","D">>,
      <<"$","9","0","0"," ","T","o","t","a","l"," ","2","0"," ","D","u","e"," ","3","0">>,
      <<DOTTED_CAPITAL_I, DOTTED_CAPITAL_I>> \o <<"T","o","t","a","l">> \o Pad(195) \o <<"$","9","9","9">>,
      <<DOTTED_CAPITAL_I, DOTTED_CAPITAL_I>> \o <<"T","o","t","a","l">> \o Pad(193) \o <<"$","9","9","9">>,
      <<"T", DOTTED_CAPITAL_I>> \o <<"o","t","a","l"," ","5"," ","T","o","t","a","l"," ">> \o <<DOTTED_CAPITAL_I>> \o <<" ","7">> }

AmountLabelLists ==
    { <<>>, <<<<"t","o","t","a","l">>>>, <<<<"a","m","o","u","n","t"," ","d","u","e">>, <<"t","o","t","a","l">>>>, <<<<"d","u","e">>, <<"t","o","t","a","l">>>>, <<<<"z","z","z">>>> }

ExtractArgs(fn, documents, label_lists, preferences) ==
    [fn : {fn}, full_text : documents, labels : label_lists, prefer_largest : preferences]

InitExtract ==
    /\ svc = NoService
    /\ ServiceIdle
    /\ args \in ExtractArgs("extract_invoice_number", IdentifierDocuments,
                            IdentifierLabelLists, {FALSE})
           \cup ExtractArgs("extract_po_number", IdentifierDocuments,
                            IdentifierLabelLists, {FALSE})
           \cup ExtractArgs("extract_delivery_reference", IdentifierDocuments,
                            IdentifierLabelLists, {FALSE})
           \cup ExtractArgs("extract_amount", AmountDocuments, AmountLabelLists, BOOLEAN)
    /\ out = <<>>

ApplyExtractInvoiceNumber ==
    /\ args.fn = "extract_invoice_number"
    /\ out = <<>>
    /\ out' = << extract_invoice_number(args.full_text, args.labels) >>
    /\ UNCHANGED <<svc, pc, req, loc, calls, ret, issued, mint, args>>

ApplyExtractPoNumber ==
    /\ args.fn = "extract_po_number"
    /\ out = <<>>
    /\ out' = << extract_po_number(args.full_text, args.labels) >>
    /\ UNCHANGED <<svc, pc, req, loc, calls, ret, issued, mint, args>>

ApplyExtractDeliveryReference ==
    /\ args.fn = "extract_delivery_reference"
    /\ out = <<>>
    /\ out' = << extract_delivery_reference(args.full_text, args.labels) >>
    /\ UNCHANGED <<svc, pc, req, loc, calls, ret, issued, mint, args>>

ApplyExtractAmount ==
    /\ args.fn = "extract_amount"
    /\ out = <<>>
    /\ out' = << extract_amount(args.full_text, args.labels, args.prefer_largest) >>
    /\ UNCHANGED <<svc, pc, req, loc, calls, ret, issued, mint, args>>

NextExtract ==
    \/ ApplyExtractInvoiceNumber
    \/ ApplyExtractPoNumber
    \/ ApplyExtractDeliveryReference
    \/ ApplyExtractAmount

SpecExtract == InitExtract /\ [][NextExtract]_vars

(***************************************************************************)
(* Identifier extraction, stated over the matches of the patterns.         *)
(***************************************************************************)
IdentifierCall ==
    args.fn \in {"extract_invoice_number", "extract_po_number", "extract_delivery_reference"}

CallPatterns ==
    CASE args.fn = "extract_invoice_number" -> INVOICE_NUMBER_PATTERNS
      [] args.fn = "extract_po_number" -> PO_NUMBER_PATTERNS
      [] args.fn = "extract_delivery_reference" -> DELIVERY_REF_PATTERNS

CallLabels ==
    CASE args.fn = "extract_invoice_number" -> LabelsOr(args.labels, INVOICE_NUMBER_LABELS)
      [] args.fn = "extract_po_number" -> LabelsOr(args.labels, PO_NUMBER_LABELS)
      [] args.fn = "extract_delivery_reference" -> LabelsOr(args.labels, DELIVERY_REFERENCE_LABELS)

\* The matches of the call's patterns whose captured value has at least
\* shortest characters, as <<pattern, rank in the pattern's matches, match>>.
CallCandidates(shortest) ==
    UNION { { <<k, i, finditer(CallPatterns[k], args.full_text)[i]>> :
                i \in { j \in 1..Len(finditer(CallPatterns[k], args.full_text)) :
                          LET m == finditer(CallPatterns[k], args.full_text)[j]
                          IN  Len(m.group1) > 0 /\ Len(m.group1[1]) >= shortest } } :
            k \in 1..Len(CallPatterns) }

\* Two characters are the same when case is ignored
SameIgnoringCase(c, d) == StrLower(<<c>>) = StrLower(<<d>>)

\* The offset in the text, counted from 0, of the first occurrence of the
\* label, case ignored; -1 when there is none.
FirstOccurrence(text, label) ==
    LET occurrences ==
            { p \in 0..(Len(text) - Len(label)) :
                \A k \in 1..Len(label) : SameIgnoringCase(text[p + k], label[k]) }
    IN  IF occurrences = {} THEN -1
        ELSE CHOOSE p \in occurrences : \A q \in occurrences : p <= q

\* The labels of the call whose first occurrence, case ignored, lies less
\* than 100 characters from the offset start.
LabelsNear(start) ==
    { l \in 1..Len(CallLabels) :
        LET label_pos == FirstOccurrence(args.full_text, CallLabels[l])
        IN  label_pos # -1 /\ Abs(start - label_pos) < 100 }

\* 0.85, plus 0.1 for each label nearby, capped at 0.98
CandidateScore(c) ==
    LET raised == 85 + 10 * Cardinality(LabelsNear(c[3].start))
    IN  IF raised > 98 THEN 98 ELSE raised

\* The field returned is the candidate of highest score; among equal scores
\* the one of the earlier pattern, then of the earlier offset; without a
\* candidate it is "UNKNOWN" at confidence 0.
BestCandidateReturned(candidates) ==
    IF candidates = {}
    THEN NormalizedFieldOut = [value |-> <<"U","N","K","N","O","W","N">>, confidence |-> 0, raw_text |-> <<>>]
    ELSE \E c \in candidates :
           /\ NormalizedFieldOut.value = c[3].group1[1]
           /\ NormalizedFieldOut.confidence = CandidateScore(c)
           /\ \A d \in candidates :
                \/ CandidateScore(d) < CandidateScore(c)
                \/ /\ CandidateScore(d) = CandidateScore(c)
                   /\ \/ c[1] < d[1]
                      \/ c[1] = d[1] /\ c[2] <= d[2]

\* C19: every pattern match starts at confidence 0.85 and gains 0.1, capped
\* at 0.98, for each configured label whose first occurrence, case ignored,
\* lies less than 100 characters from the match start; the returned field is
\* the match of highest confidence, ties going to the earlier pattern, then
\* the earlier offset; when no pattern matches the result is "UNKNOWN" with
\* confidence 0.
C19_BestMatchReturned ==
    (IdentifierCall /\ out # <<>>) =>
        /\ ~out[1].raised
        /\ BestCandidateReturned(CallCandidates(1))


(***************************************************************************)
(* Amount extraction, stated over the amounts of the document and of the   *)
(* label windows.                                                          *)
(***************************************************************************)
AmountCall == args.fn = "extract_amount" /\ out # <<>>

\* The offsets of the first occurrences of the labels that occur
LabelOffsets ==
    { FirstOccurrence(args.full_text, args.labels[l]) : l \in 1..Len(args.labels) } \ {-1}

\* The positive amounts the patterns match in a text
PositiveAmounts(text) ==
    LET found == AmountsFrom(1, text, 0)
    IN  { found[i].amount : i \in 1..Len(found) }

\* The labeled candidates: the amounts matched inside the 200 characters
\* that start at the first occurrence of a label
LabeledValues ==
    UNION { PositiveAmounts([ i \in 1..(IF Len(args.full_text) - p < 200
                                     THEN Len(args.full_text) - p ELSE 200) |->
                             args.full_text[p + i] ]) : p \in LabelOffsets }

IsLargest(value, values) == value \in values /\ \A v \in values : ~DecimalLess(value, v)

\* C20: if a labeled candidate exists, extract_amount returns a labeled
\* candidate at confidence 0.95, the largest one when prefer_largest is
\* true, and never an amount outside every label window; if none exists but
\* the document holds a positive amount, it returns the largest amount of
\* the document at confidence 0.6; otherwise 0 at confidence 0.
C20_AmountSelection ==
    AmountCall =>
        /\ ~out[1].raised
        /\ IF LabeledValues # {}
           THEN /\ NormalizedFieldOut.confidence = 95
                /\ NormalizedFieldOut.value \in LabeledValues
                /\ args.prefer_largest => IsLargest(NormalizedFieldOut.value, LabeledValues)
           ELSE IF PositiveAmounts(args.full_text) # {}
           THEN /\ NormalizedFieldOut.confidence = 60
                /\ IsLargest(NormalizedFieldOut.value, PositiveAmounts(args.full_text))
           ELSE /\ NormalizedFieldOut.confidence = 0
                /\ NormalizedFieldOut.value = DecimalZero

(***************************************************************************)
(* SmartFieldExtractor.extract_date.  A date found in the text is a record *)
(* [value, confidence, raw, position]; position is match.start().          *)
(***************************************************************************)
DATE_MATCH_CONFIDENCE == 85      \* all_dates.append((parsed, 0.85, raw_value, match.start()))
DATE_LABELED_CONFIDENCE == 95    \* confidence=0.95 of the date near a label
DATE_FALLBACK_CONFIDENCE == 60   \* confidence=0.6 of the fallback
DATE_WINDOW_CHARS == 150         \* pos < label_pos + 150

ReDateSeparator == ReSet({"-", "/"})
ReCommaSpaces == ReSeq(<<ReOpt(ReSet({","})), RePlus(ReSet(WHITESPACE))>>)

\* (?:January|...|December) and (?:Jan|...|Dec), from the names of the months
ReMonthOf(names) == ReAlt([m \in 1..12 |-> ReLit(names[m])])

\* (pattern, fmt) pairs; a format is a sequence of directives and literals
DATE_PATTERNS ==
    << [pattern |-> ReGroup(ReSeq(<<ReRep(ReDigit, 4, 4), ReDateSeparator, ReRep(ReDigit, 1, 2),
                                    ReDateSeparator, ReRep(ReDigit, 1, 2)>>)),
        fmt |-> <<"%Y", "-", "%m", "-", "%d">>],
       [pattern |-> ReGroup(ReSeq(<<ReRep(ReDigit, 1, 2), ReDateSeparator, ReRep(ReDigit, 1, 2),
                                    ReDateSeparator, ReRep(ReDigit, 2, 4)>>)),
        fmt |-> <<"%m", "/", "%d", "/", "%Y">>],
       [pattern |-> ReGroup(ReSeq(<<ReMonthOf(MONTH_NAME), RePlus(ReSet(WHITESPACE)),
                                    ReRep(ReDigit, 1, 2), ReCommaSpaces, ReRep(ReDigit, 4, 4)>>)),
        fmt |-> <<"%B", " ", "%d", ",", " ", "%Y">>],
       [pattern |-> ReGroup(ReSeq(<<ReMonthOf(MONTH_ABBR), ReStar(ReSet(LetterChars)), ReOpt(ReSet({"."})),
                                    RePlus(ReSet(WHITESPACE)), ReRep(ReDigit, 1, 2), ReCommaSpaces,
                                    ReRep(ReDigit, 4, 4)>>)),
        fmt |-> <<"%b", " ", "%d", ",", " ", "%Y">>] >>

\* for try_fmt in [fmt, '%B %d %Y', '%b %d %Y', '%m/%d/%Y', '%Y/%m/%d']
TryFormats(fmt) ==
    << fmt, <<"%B", " ", "%d", " ", "%Y">>, <<"%b", " ", "%d", " ", "%Y">>,
       <<"%m", "/", "%d", "/", "%Y">>, <<"%Y", "/", "%m", "/", "%d">> >>

\* raw_value.replace('-', '/').replace(',', '').replace('\n', ' ')
normalized_date_text(raw_value) ==
    StrReplaceChar(StrReplaceChar(StrReplaceChar(raw_value, "-", <<"/">>), ",", <<>>), "\n", <<" ">>)

\* The date of the first format of TryFormats(fmt) that parses the text,
\* as <<date>>; <<>> when every format raises ValueError.
parsed_date(raw_value, fmt) ==
    LET normalized == normalized_date_text(raw_value)
        formats == TryFormats(fmt)
        parsing == { k \in 1..Len(formats) : strptime(normalized, formats[k]).ok }
    IN  IF parsing = {} THEN <<>>
        ELSE << strptime(normalized, formats[CHOOSE k \in parsing : \A j \in parsing : k <= j]).value >>

\* The dates one pattern finds, in the order of re.finditer
PatternDates(entry, full_text) ==
    LET found == finditer(entry.pattern, full_text)
        kept == SelectSeq(found, LAMBDA m : parsed_date(m.group1[1], entry.fmt) # <<>>)
    IN  [ i \in 1..Len(kept) |->
            [value |-> parsed_date(kept[i].group1[1], entry.fmt)[1],
             confidence |-> DATE_MATCH_CONFIDENCE,
             raw |-> kept[i].group1[1], position |-> kept[i].start] ]

\* for pattern, fmt in DATE_PATTERNS: for match in re.finditer(...)
RECURSIVE AllDates(_, _)
AllDates(k, full_text) ==
    IF k > Len(DATE_PATTERNS) THEN <<>>
    ELSE PatternDates(DATE_PATTERNS[k], full_text) \o AllDates(k + 1, full_text)

\* sorted(labels, key=len, reverse=True): stable, equal lengths keep their order
RECURSIVE sorted_labels(_)
sorted_labels(labels) ==
    IF Len(labels) = 0 THEN <<>>
    ELSE LET before == sorted_labels(SubSeq(labels, 1, Len(labels) - 1))
             last == labels[Len(labels)]
             n == Cardinality({ i \in 1..Len(before) : Len(before[i]) >= Len(last) })
         IN  SubSeq(before, 1, n) \o <<last>> \o SubSeq(before, n + 1, Len(before))

\* pos > label_pos and pos < label_pos + 150
date_after_label(pos, label_pos) == pos > label_pos /\ pos < label_pos + DATE_WINDOW_CHARS

\* min(dates_after_label, key=lambda x: x[3] - label_pos): the first of the closest
ClosestDate(dates, label_pos) ==
    dates[CHOOSE i \in 1..Len(dates) :
            /\ \A j \in 1..Len(dates) : dates[i].position <= dates[j].position
            /\ \A j \in 1..(i - 1) : dates[j].position > dates[i].position]

\* for label in sorted_labels: ... return the closest date after the label;
\* <<>> when the loop ends without returning
RECURSIVE DateNearLabels(_, _, _)
DateNearLabels(full_text, labels, all_dates) ==
    IF Len(labels) = 0 THEN <<>>
    ELSE LET label_pos == StrFind(StrLower(full_text), StrLower(Head(labels)))
             dates_after_label ==
                 SelectSeq(all_dates, LAMBDA d : date_after_label(d.position, label_pos))
         IN  IF label_pos # -1 /\ Len(dates_after_label) > 0
             THEN << ClosestDate(dates_after_label, label_pos) >>
             ELSE DateNearLabels(full_text, Tail(labels), all_dates)

\* SmartFieldExtractor.extract_date(ocr_result, labels), called on the day today
extract_date(full_text, labels, today) ==
    LET all_dates == AllDates(1, full_text)
        near == DateNearLabels(full_text, sorted_labels(labels), all_dates)
    IN  IF Len(all_dates) = 0 THEN NormalizedField(today, 0, <<>>)
        ELSE IF Len(near) > 0
        THEN NormalizedField(near[1].value, DATE_LABELED_CONFIDENCE, near[1].raw)
        ELSE NormalizedField(all_dates[1].value, DATE_FALLBACK_CONFIDENCE, all_dates[1].raw)

(***************************************************************************)
(* SpecExtractDate: extract_date applied to the full text of a document.   *)
(***************************************************************************)
DateDocuments ==
    { <<>>, <<"n","o"," ","d","a","t","e","s"," ","h","e","r","e">>, <<"D","a","t","e",":"," ","2","0","2","4","-","0","1","-","0","5">>, <<"I","n","v","o","i","c","e"," ","D","a","t","e",":"," ","0","1","/","0","5","/","2","0","2","4"," ","D","u","e"," ","D","a","t","e",":"," ","0","2","/","0","4","/","2","0","2","4">>,
      <<"J","a","n"," ","5",","," ","2","0","2","4"," ","t","h","e","n"," ","2","0","2","4","-","0","2","-","0","1">>, <<"D","a","t","e"," ","3","/","4","/","2","0","2","4"," ","x"," ","2","0","2","4","-","0","2","-","0","1">>, <<"D","u","e"," ","J","a","n","u","a","r","y"," ","5",","," ","2","0","2","4"," ","D","a","t","e"," ","F","e","b"," ","9"," ","2","0","2","4">>,
      <<"2","0","2","4","-","0","1","-","0","5"," ","D","a","t","e">>, <<"D","a","t","e"," ","1","/","5","/","2","4">>, <<"D","a","t","e"," ","1","3","/","0","1","/","2","0","2","4">>, <<"S","e","p","t"," ","5",","," ","2","0","2","4">>, <<"2","0","2","4","-","0","2","-","3","0">>,
      <<"D","A","T","E">> \o Pad(145) \o <<"2","0","2","4","-","0","2","-","0","1">>, <<"D","a","t","e">> \o Pad(146) \o <<"2","0","2","4","-","0","2","-","0","1">>,
      <<"2","0","2","3","-","1","2","-","3","1"," ","D","a","t","e">> \o Pad(150) \o <<"2","0","2","4","/","2","/","1">>,
      <<"D","u","e"," ","D","a","t","e",":"," ","2","0","2","4","-","0","3","-","0","1"," ","D","a","t","e",":"," ","2","0","2","4","-","0","2","-","0","1">>, <<"D","a","t","e",":"," ","x"," ","D","u","e",":"," ","2","0","2","4","/","0","3","/","0","1"," ","a","n","d"," ","M","a","r","c","h"," ","9",","," ","2","0","2","4">>,
      <<"d","u","e"," ","2","0","2","4","-","0","3","-","0","1"," ","d","a","t","e"," ","2","0","2","4","-","0","2","-","0","1">>,
      <<DOTTED_CAPITAL_I, DOTTED_CAPITAL_I>> \o <<"D","a","t","e">> \o Pad(147) \o <<"2","0","2","4","-","0","2","-","0","1">>,
      <<DOTTED_CAPITAL_I, DOTTED_CAPITAL_I>> \o <<"2","0","2","4","-","0","2","-","0","1"," ","D","a","t","e"," ","2","0","2","4","-","0","3","-","0","1">> }

DateLabelLists ==
    { <<>>, <<<<"d","a","t","e">>>>, <<<<"i","n","v","o","i","c","e"," ","d","a","t","e">>, <<"d","a","t","e">>>>, <<<<"d","a","t","e">>, <<"d","u","e"," ","d","a","t","e">>>>, <<<<"d","u","e"," ">>, <<"d","a","t","e">>>>,
      <<<<"d","a","t","e">>, <<"d","u","e"," ">>>>, <<<<"z","z","z">>>> }

InitExtractDate ==
    /\ svc = NoService
    /\ ServiceIdle
    /\ args \in [fn : {"extract_date"}, full_text : DateDocuments, labels : DateLabelLists,
                 today : Todays]
    /\ out = <<>>

ApplyExtractDate ==
    /\ args.fn = "extract_date"
    /\ out = <<>>
    /\ out' = << extract_date(args.full_text, args.labels, args.today) >>
    /\ UNCHANGED <<svc, pc, req, loc, calls, ret, issued, mint, args>>

NextExtractDate == ApplyExtractDate

SpecExtractDate == InitExtractDate /\ [][NextExtractDate]_vars

(***************************************************************************)
(* Date extraction, stated over the parseable dates of the document.       *)
(***************************************************************************)
DateCall == args.fn = "extract_date" /\ out # <<>>

\* The parseable dates of the document, as [position, value]
ParseableDates ==
    LET found == AllDates(1, args.full_text)
    IN  { [position |-> found[i].position, value |-> found[i].value] : i \in 1..Len(found) }

\* The parseable dates strictly after the offset and less than 150 characters away
DatesAfter(offset) ==
    { d \in ParseableDates : d.position > offset /\ d.position < offset + 150 }

\* The labels in the order they are tried: longest first, equal lengths in
\* the caller's order, as indices into the caller's list
TriedBefore(i, j) ==
    \/ Len(args.labels[i]) > Len(args.labels[j])
    \/ Len(args.labels[i]) = Len(args.labels[j]) /\ i < j

\* A label qualifies when it occurs and a parseable date follows its first
\* occurrence within the window
Qualifies(l) ==
    /\ FirstOccurrence(args.full_text, args.labels[l]) # -1
    /\ DatesAfter(FirstOccurrence(args.full_text, args.labels[l])) # {}

EarliestOf(dates) == { d.value : d \in { e \in dates : \A f \in dates : e.position <= f.position } }

\* C21: extract_date tries the labels longest first; for the first label
\* that occurs and has a parseable date strictly after it, less than 150
\* characters away, it returns the date closest to the label at confidence
\* 0.95; if no label qualifies it returns the parseable date of smallest
\* offset at confidence 0.6; without a parseable date, today at confidence 0.
C21_DateSelection ==
    DateCall =>
        /\ ~out[1].raised
        /\ IF ParseableDates = {}
           THEN NormalizedFieldOut.value = args.today /\ NormalizedFieldOut.confidence = 0
           ELSE IF \E l \in 1..Len(args.labels) : Qualifies(l)
           THEN LET l == CHOOSE l \in 1..Len(args.labels) :
                           /\ Qualifies(l)
                           /\ \A m \in 1..Len(args.labels) : (Qualifies(m) /\ m # l) => TriedBefore(l, m)
                IN  /\ NormalizedFieldOut.confidence = 95
                    /\ NormalizedFieldOut.value
                         \in EarliestOf(DatesAfter(FirstOccurrence(args.full_text, args.labels[l])))
           ELSE /\ NormalizedFieldOut.confidence = 60
                /\ NormalizedFieldOut.value \in EarliestOf(ParseableDates)

(***************************************************************************)
(* SmartFieldExtractor.extract_name.  blocks are the OCR fragments, each   *)
(* [text, confidence]; the confidence of the result is the rational        *)
(* total / parts, total in percents.                                       *)
(***************************************************************************)
NEXT_BLOCKS == 5            \* range(i + 1, min(i + 6, len(blocks)))
MAX_NAME_PARTS == 3         \* name_parts[:3]
SHORT_TEXT_LENGTH == 2      \* if len(next_text) <= 2
COMPANY_CONFIDENCE == 75    \* confidence=0.75 of a company-name pattern

TextBlock(text, confidence) == [text |-> text, confidence |-> confidence]

label_prefixes ==
    << <<"(","s","e","l","l","e","r",")",":">>, <<"(","b","u","y","e","r",")",":">>, <<"s","e","l","l","e","r",":">>, <<"b","u","y","e","r",":">>,
       <<"f","r","o","m",":">>, <<"t","o",":">>, <<"v","e","n","d","o","r",":">>, <<"c","u","s","t","o","m","e","r",":">>, <<"c","o","m","p","a","n","y",":">>,
       <<"b","i","l","l"," ","t","o",":">>, <<"s","h","i","p"," ","t","o",":">>, <<"s","o","l","d"," ","b","y",":">>, <<"s","o","l","d"," ","t","o",":">>,
       <<"f","r","o","m"," ","(","b","u","y","e","r",")",":">>, <<"t","o"," ","(","v","e","n","d","o","r",")",":">>, <<"d","e","l","i","v","e","r"," ","t","o",":">>,
       <<"f","r","o","m"," ","(","s","h","i","p","p","e","r",")",":">>, <<"s","h","i","p","p","e","r",":">>, <<"r","e","c","i","p","i","e","n","t",":">> >>

skip_words ==
    << <<"t","a","x">>, <<"i","n","v","o","i","c","e">>, <<"p","u","r","c","h","a","s","e">>, <<"o","r","d","e","r">>, <<"d","e","l","i","v","e","r","y">>, <<"p","r","o","o","f">>,
       <<"g","s","t">>, <<"r","e","g">>, <<"p","a","g","e">>, <<"d","a","t","e">>, <<"n","u","m","b","e","r">>, <<"n","o">>, <<"t","o","t","a","l">>,
       <<"p",".","o",".">>, <<"p","o","-">>, <<"d","e","l","-">>, <<"i","n","v","-">> >>

\* ['date:', 'invoice no', 'po:', 'total:', 'amount:', 'qty:', 'phone:', 'fax:']
NAME_DELIMITERS ==
    << <<"d","a","t","e",":">>, <<"i","n","v","o","i","c","e"," ","n","o">>, <<"p","o",":">>, <<"t","o","t","a","l",":">>, <<"a","m","o","u","n","t",":">>, <<"q","t","y",":">>, <<"p","h","o","n","e",":">>, <<"f","a","x",":">> >>

\* ['seller', 'buyer', 'from', 'to', 'vendor', 'customer', 'ship', 'bill']
LABEL_WORDS == { <<"s","e","l","l","e","r">>, <<"b","u","y","e","r">>, <<"f","r","o","m">>, <<"t","o">>, <<"v","e","n","d","o","r">>, <<"c","u","s","t","o","m","e","r">>, <<"s","h","i","p">>, <<"b","i","l","l">> }

\* ^[A-Z]{2,4}[-\s]?[A-Z0-9]{2,4}[-\s]?\d{3,}
ref_pattern ==
    ReSeq(<<ReRep(ReSet(LetterChars), 2, 4), ReOpt(ReSet({"-"} \cup WHITESPACE)),
            ReRep(ReSet(LetterChars \cup DigitChars), 2, 4), ReOpt(ReSet({"-"} \cup WHITESPACE)),
            ReRep(ReDigit, 3, UNBOUNDED)>>)

\* pattern.match(text): the pattern matches at the start of the text
re_match(pattern, text) == Len(ReMatch(pattern, text, ReState(1, <<>>))) > 0

\* s.rstrip(':')
RECURSIVE StrRStripColon(_)
StrRStripColon(s) ==
    IF s # <<>> /\ s[Len(s)] = ":" THEN StrRStripColon(SubSeq(s, 1, Len(s) - 1)) ELSE s

\* ' '.join(parts)
RECURSIVE StrJoinSpace(_)
StrJoinSpace(parts) ==
    IF Len(parts) = 0 THEN <<>>
    ELSE IF Len(parts) = 1 THEN parts[1]
    ELSE parts[1] \o <<" ">> \o StrJoinSpace(Tail(parts))

\* for prefix in label_prefixes: if cleaned.lower().startswith(prefix): ...
RECURSIVE strip_label_prefixes(_, _)
strip_label_prefixes(cleaned, k) ==
    IF k > Len(label_prefixes) THEN cleaned
    ELSE IF StartsWithAt(StrLower(cleaned), 1, label_prefixes[k])
    THEN strip_label_prefixes(StrStrip(SubSeq(cleaned, Len(label_prefixes[k]) + 1, Len(cleaned))), k + 1)
    ELSE strip_label_prefixes(cleaned, k + 1)

\* if any(kw in next_lower for kw in [...]): break
stops_name(next_block) ==
    \E k \in 1..Len(NAME_DELIMITERS) :
        StrContains(StrLower(StrStrip(next_block.text)), NAME_DELIMITERS[k])

\* The token a following block contributes: <<>> when it is skipped,
\* <<cleaned>> when it is appended to name_parts
name_part(next_block) ==
    LET next_text == StrStrip(next_block.text)
        next_lower == StrLower(next_text)
        cleaned == strip_label_prefixes(next_text, 1)
    IN  IF Len(next_text) <= SHORT_TEXT_LENGTH THEN <<>>
        ELSE IF StrRStripColon(next_lower) \in LABEL_WORDS THEN <<>>
        ELSE IF \E k \in 1..Len(skip_words) : StrContains(next_lower, skip_words[k]) THEN <<>>
        ELSE IF re_match(ref_pattern, next_text) THEN <<>>
        ELSE IF Len(cleaned) > 1 THEN <<cleaned>>
        ELSE <<>>

\* for j in range(i + 1, min(i + 6, len(blocks))): the (cleaned, confidence)
\* pairs appended from block j on; i and j index blocks from 1
RECURSIVE NamePartsFrom(_, _, _)
NamePartsFrom(blocks, i, j) ==
    IF j > i + NEXT_BLOCKS \/ j > Len(blocks) THEN <<>>
    ELSE IF stops_name(blocks[j]) THEN <<>>
    ELSE (IF name_part(blocks[j]) = <<>> THEN <<>>
          ELSE << [cleaned |-> name_part(blocks[j])[1], confidence |-> blocks[j].confidence] >>)
           \o NamePartsFrom(blocks, i, j + 1)

name_parts(blocks, i) == NamePartsFrom(blocks, i, i + 1)

\* if label.lower() in text_lower, for some label of the list
has_label(block, labels) ==
    \E l \in 1..Len(labels) :
        StrContains(StrStrip(StrLower(block.text)), StrLower(labels[l]))

\* full_text = "\n".join(block.text for block in self.all_blocks)
RECURSIVE full_text_of(_)
full_text_of(blocks) ==
    IF Len(blocks) = 0 THEN <<>>
    ELSE IF Len(blocks) = 1 THEN blocks[1].text
    ELSE blocks[1].text \o <<"\n">> \o full_text_of(Tail(blocks))

company_patterns ==
    << ReGroup(ReSeq(<<ReSet(LetterChars), RePlus(ReSet(LetterChars \cup WHITESPACE)),
                       ReAlt(<<ReSeq(<<ReLit(<<"P","T","E">>), ReOpt(ReSet({"."})), ReSpaces, ReLit(<<"L","T","D">>), ReOpt(ReSet({"."}))>>),
                               ReSeq(<<ReLit(<<"L","T","D">>), ReOpt(ReSet({"."}))>>),
                               ReSeq(<<ReLit(<<"I","N","C">>), ReOpt(ReSet({"."}))>>),
                               ReSeq(<<ReLit(<<"C","O","R","P">>), ReOpt(ReSet({"."}))>>),
                               ReLit(<<"L","L","C">>)>>)>>)),
       ReGroup(ReSeq(<<ReSet(LetterChars), RePlus(ReSet(LetterChars)),
                       RePlus(ReSeq(<<RePlus(ReSet(WHITESPACE)), ReSet(LetterChars), RePlus(ReSet(LetterChars))>>)),
                       RePlus(ReSet(WHITESPACE)),
                       ReAlt(<<ReLit(<<"L","t","d">>), ReLit(<<"I","n","c">>), ReLit(<<"C","o","r","p">>), ReLit(<<"L","L","C">>)>>)>>)) >>

\* ExtractedField(value=..., confidence=total / parts, raw_text=...):
\* __post_init__ raises ValueError unless 0.0 <= confidence <= 1.0.
AveragedField(value, total, parts, raw_text) ==
    IF 0 <= total /\ total <= 100 * parts
    THEN [raised |-> FALSE,
          field |-> << [value |-> value, confidence |-> [total |-> total, parts |-> parts],
                        raw_text |-> raw_text] >>]
    ELSE [raised |-> TRUE, field |-> <<>>]

RECURSIVE total_conf(_)
total_conf(parts) == IF Len(parts) = 0 THEN 0 ELSE parts[1].confidence + total_conf(Tail(parts))

\* str.strip() of a pattern's group, whose blanks may be line breaks
RECURSIVE StripWhitespace(_)
StripWhitespace(s) ==
    IF s # <<>> /\ Head(s) \in WHITESPACE THEN StripWhitespace(Tail(s))
    ELSE IF s # <<>> /\ s[Len(s)] \in WHITESPACE THEN StripWhitespace(SubSeq(s, 1, Len(s) - 1))
    ELSE s

\* SmartFieldExtractor.extract_name(ocr_result, labels)
extract_name(blocks, labels) ==
    LET hits == { i \in 1..Len(blocks) : has_label(blocks[i], labels) /\ Len(name_parts(blocks, i)) > 0 }
        matching == { k \in 1..Len(company_patterns) :
                        Len(finditer(company_patterns[k], full_text_of(blocks))) > 0 }
    IN  IF hits # {}
        THEN LET parts == name_parts(blocks, CHOOSE i \in hits : \A h \in hits : i <= h)
                 kept == SubSeq(parts, 1, MinOf(MAX_NAME_PARTS, Len(parts)))
                 name == StrJoinSpace([k \in 1..Len(kept) |-> kept[k].cleaned])
             IN  AveragedField(name, total_conf(parts), Len(parts), name)
        ELSE IF matching # {}
        THEN LET k == CHOOSE k \in matching : \A m \in matching : k <= m
                 name == StripWhitespace(finditer(company_patterns[k], full_text_of(blocks))[1].group1[1])
             IN  AveragedField(name, COMPANY_CONFIDENCE, 1, name)
        ELSE AveragedField(<<"U","N","K","N","O","W","N">>, 0, 1, <<>>)
(***************************************************************************)
(* SpecExtractName: extract_name applied to the fragments of a document:   *)
(* a label fragment followed by fragments of NameBlocks, and documents     *)
(* without a usable label.                                                 *)
(***************************************************************************)
MaxFollowing == 3

NameBlocks ==
    { TextBlock(<<"A","c","m","e">>, 90), TextBlock(<<"S","u","p","p","l","i","e","s">>, 100), TextBlock(<<"L","t","d">>, 10),
      TextBlock(<<"T","o">>, 90), TextBlock(<<"D","a","t","e",":"," ","5">>, 90), TextBlock(<<"v","e","n","d","o","r",":"," ","G","l","o","b","e","x">>, 50) }

FollowingBlocks == UNION { [1..n -> NameBlocks] : n \in 0..MaxFollowing }

NameDocuments ==
    { <<TextBlock(<<"S","e","l","l","e","r",":">>, 95)>> \o following : following \in FollowingBlocks }
    \cup
    { <<>>,
      <<TextBlock(<<"S","e","l","l","e","r",":">>, 95), TextBlock(<<"A","c","m","e">>, 90), TextBlock(<<"S","u","p","p","l","i","e","s">>, 90), TextBlock(<<"P","t","e">>, 90), TextBlock(<<"L","t","d">>, 10)>>,
      <<TextBlock(<<"S","e","l","l","e","r",":">>, 95), TextBlock(<<"A","c","m","e">>, 100), TextBlock(<<"S","u","p","p","l","i","e","s">>, 100), TextBlock(<<"P","t","e">>, 100), TextBlock(<<"L","t","d">>, 0), TextBlock(<<"S","i","n","g","a","p","o","r","e">>, 0)>>,
      <<TextBlock(<<"S","e","l","l","e","r",":">>, 95), TextBlock(<<"A","c","m","e">>, 80), TextBlock(<<"T","o">>, 10), TextBlock(<<"S","u","p","p","l","i","e","s">>, 80), TextBlock(<<"T","e","c","h","n","o","l","o","g","i","e","s">>, 10), TextBlock(<<"P","t","e">>, 80), TextBlock(<<"L","t","d">>, 20)>>,
      <<TextBlock(<<"S","e","l","l","e","r",":">>, 95), TextBlock(<<"P","O","-","S","G","-","2","0","2","3","-","0","0","1">>, 90), TextBlock(<<"t","o",":">>, 90), TextBlock(<<"s","e","l","l","e","r",":","x">>, 90), TextBlock(<<"A","c","m","e">>, 70)>>,
      <<TextBlock(<<"B","i","l","l"," ","T","o",":">>, 95), TextBlock(<<"B","u","y","e","r">>, 90), TextBlock(<<"b","i","l","l"," ","t","o",":"," ","f","r","o","m",":"," ","G","l","o","b","e","x"," ","I","n","c">>, 60), TextBlock(<<"S","e","l","l","e","r">>, 90), TextBlock(<<"I","n","i","t","e","c","h">>, 80)>>,
      <<TextBlock(<<"T","A","X"," ","I","N","V","O","I","C","E">>, 95), TextBlock(<<"C","L","E","A","R","W","A","T","E","R"," ","P","T","E"," ","L","T","D">>, 90)>>,
      <<TextBlock(<<"A","c","m","e"," ","S","u","p","p","l","i","e","s"," ","L","t","d">>, 90), TextBlock(<<"S","e","l","l","e","r",":">>, 95)>>,
      <<TextBlock(<<"S","u","p","p","l","i","e","d"," ","b","y">>, 95), TextBlock(<<"A","c","m","e">>, 90), TextBlock(<<"S","u","p","p","l","i","e","s">>, 90), TextBlock(<<"L","t","d">>, 90)>>,
      <<TextBlock(<<"S","e","l","l","e","r",":">>, 95), TextBlock(<<"P","h","o","n","e",":"," ","1">>, 90), TextBlock(<<"A","c","m","e">>, 90)>>,
      <<TextBlock(<<"h","e","l","l","o">>, 95), TextBlock(<<"w","o","r","l","d">>, 90)>>,
      <<TextBlock(<<DOTTED_CAPITAL_I>> \o <<"s","e","l","l","e","r">>, 95), TextBlock(<<"t","o",":">> \o <<DOTTED_CAPITAL_I>> \o <<"z","m","i","r">>, 90)>> }

NameLabelLists == { <<<<"s","e","l","l","e","r">>>>, <<<<"B","u","y","e","r">>, <<"S","E","L","L","E","R">>, <<"b","i","l","l"," ","t","o">>>>, <<<<"z","z","z">>>> }

InitExtractName ==
    /\ svc = NoService
    /\ ServiceIdle
    /\ args \in [fn : {"extract_name"}, blocks : NameDocuments, labels : NameLabelLists]
    /\ out = <<>>

ApplyExtractName ==
    /\ args.fn = "extract_name"
    /\ out = <<>>
    /\ out' = << extract_name(args.blocks, args.labels) >>
    /\ UNCHANGED <<svc, pc, req, loc, calls, ret, issued, mint, args>>

NextExtractName == ApplyExtractName

SpecExtractName == InitExtractName /\ [][NextExtractName]_vars

(***************************************************************************)
(* The name built from the fragments that follow a label.                  *)
(***************************************************************************)
\* The fragments that hold a label and are followed by a surviving token
LabelFragments ==
    { i \in 1..Len(args.blocks) :
        has_label(args.blocks[i], args.labels) /\ Len(name_parts(args.blocks, i)) > 0 }

NameFromLabel == args.fn = "extract_name" /\ out # <<>> /\ LabelFragments # {}

\* The surviving tokens after the first such fragment, and the ones that
\* are concatenated into the name
SurvivingTokens == name_parts(args.blocks, CHOOSE i \in LabelFragments : \A h \in LabelFragments : i <= h)
ConcatenatedTokens == SubSeq(SurvivingTokens, 1, IF Len(SurvivingTokens) < 3 THEN Len(SurvivingTokens) ELSE 3)

\* C22: the name built after a label is the concatenation of at most 3
\* surviving tokens taken from at most the next 5 fragments, and the
\* confidence returned is the average confidence of exactly the fragments
\* whose tokens were concatenated, whatever tokens survive beyond the third.
C22_NameConfidence ==
    NameFromLabel =>
        /\ ~out[1].raised
        /\ Len(SurvivingTokens) <= 5
        /\ NormalizedFieldOut.value = StrJoinSpace([k \in 1..Len(ConcatenatedTokens) |-> ConcatenatedTokens[k].cleaned])
        /\ NormalizedFieldOut.confidence.total * Len(ConcatenatedTokens)
             = total_conf(ConcatenatedTokens) * NormalizedFieldOut.confidence.parts

(***************************************************************************)
(* services/ocr/table.py: the table detector.  Coordinates and tolerances  *)
(* are in thousandths of the page; a fragment is a TextBlock with its      *)
(* bounding box; averages and midpoints are exact rationals [num, den].    *)
(***************************************************************************)
ROW_TOLERANCE == 15        \* ROW_TOLERANCE = 0.015
COLUMN_TOLERANCE == 50     \* COLUMN_TOLERANCE = 0.05
MIN_TABLE_ROWS == 2        \* MIN_TABLE_ROWS = 2

PageBlock(text, confidence, x_min, y_min, x_max, y_max) == [text |-> text, confidence |-> confidence, x_min |-> x_min, y_min |-> y_min, x_max |-> x_max, y_max |-> y_max]

RECURSIVE Gcd(_, _)
Gcd(a, b) == IF b = 0 THEN a ELSE Gcd(b, a % b)

\* The rational num / den, den > 0, in lowest terms
Rational(num, den) ==
    LET g == Gcd(Abs(num), den)
    IN  [num |-> num \div g, den |-> den \div g]

RationalAdd(a, b) == Rational(a.num * b.den + b.num * a.den, a.den * b.den)
RationalLess(a, b) == a.num * b.den < b.num * a.den
\* (a + b) / 2
Midpoint(a, b) == Rational(a.num * b.den + b.num * a.den, 2 * a.den * b.den)

\* TextBlock.center_x and TextBlock.center_y
center_x(block) == Rational(block.x_min + block.x_max, 2)
center_y(block) == Rational(block.y_min + block.y_max, 2)

\* sorted(items, key=...) and list.sort(key=...): stable, on records whose
\* field key is a rational
RECURSIVE SortedByKey(_)
SortedByKey(items) ==
    IF Len(items) = 0 THEN <<>>
    ELSE LET before == SortedByKey(SubSeq(items, 1, Len(items) - 1))
             last == items[Len(items)]
             n == Cardinality({ i \in 1..Len(before) : ~RationalLess(last.key, before[i].key) })
         IN  SubSeq(before, 1, n) \o <<last>> \o SubSeq(before, n + 1, Len(before))

SortedBlocks(blocks, by_x) ==
    LET keyed == [i \in 1..Len(blocks) |->
                    [key |-> IF by_x THEN center_x(blocks[i]) ELSE center_y(blocks[i]),
                     block |-> blocks[i]]]
        sorted == SortedByKey(keyed)
    IN  [i \in 1..Len(sorted) |-> sorted[i].block]

\* abs(block.center_y - current_y) <= self.row_tolerance
within_row_tolerance(block, current_y) ==
    LET y == center_y(block)
        limit == Rational(ROW_TOLERANCE, 1)
    IN  /\ ~RationalLess(limit, RationalAdd(y, Rational(-current_y.num, current_y.den)))
        /\ ~RationalLess(limit, RationalAdd(current_y, Rational(-y.num, y.den)))

\* for block in sorted_blocks[1:]: the rows closed so far, the open row and
\* the vertical center of the open row's first block
RECURSIVE GroupRows(_, _, _, _)
GroupRows(remaining, rows, current_row, current_y) ==
    IF Len(remaining) = 0 THEN Append(rows, current_row)
    ELSE IF within_row_tolerance(Head(remaining), current_y)
    THEN GroupRows(Tail(remaining), rows, Append(current_row, Head(remaining)), current_y)
    ELSE GroupRows(Tail(remaining), Append(rows, current_row), <<Head(remaining)>>,
                   center_y(Head(remaining)))

\* TableDetector._group_into_rows(blocks)
group_into_rows(blocks) ==
    IF Len(blocks) = 0 THEN <<>>
    ELSE LET sorted_blocks == SortedBlocks(blocks, FALSE)
             rows == GroupRows(Tail(sorted_blocks), <<>>, <<sorted_blocks[1]>>, center_y(sorted_blocks[1]))
         IN  [r \in 1..Len(rows) |-> SortedBlocks(rows[r], TRUE)]

\* for edge in left_edges[1:]: column_starts after the loop and its last cluster
RECURSIVE ColumnStarts(_, _, _, _, _)
ColumnStarts(edges, column_starts, cluster_start, cluster_sum, cluster_count) ==
    IF Len(edges) = 0 THEN Append(column_starts, Rational(cluster_sum, cluster_count))
    ELSE IF Head(edges) - cluster_start <= COLUMN_TOLERANCE
    THEN ColumnStarts(Tail(edges), column_starts, cluster_start, cluster_sum + Head(edges), cluster_count + 1)
    ELSE LET last == column_starts[Len(column_starts)]
             boundary == RationalAdd(Midpoint(last, Rational(cluster_start, 1)), Rational(COLUMN_TOLERANCE, 1))
             with_boundary == IF Len(column_starts) > 0 /\ RationalLess(last, boundary)
                              THEN Append(column_starts, boundary)
                              ELSE column_starts
         IN  ColumnStarts(Tail(edges), Append(with_boundary, Rational(cluster_sum, cluster_count)),
                          Head(edges), Head(edges), 1)

\* TableDetector._detect_column_boundaries(blocks)
detect_column_boundaries(blocks) ==
    IF Len(blocks) = 0 THEN <<>>
    ELSE LET keyed == SortedByKey([i \in 1..Len(blocks) |-> [key |-> Rational(blocks[i].x_min, 1)]])
             left_edges == [i \in 1..Len(keyed) |-> keyed[i].key.num]
             column_starts == ColumnStarts(Tail(left_edges), <<>>, left_edges[1], left_edges[1], 1)
         IN  [i \in 1..(Len(column_starts) - 1) |-> Midpoint(column_starts[i], column_starts[i + 1])]

\* TableDetector._get_column_index(x_position, boundaries), columns from 0
get_column_index(x_position, boundaries) ==
    LET right == { i \in 1..Len(boundaries) : RationalLess(x_position, boundaries[i]) }
    IN  IF right = {} THEN Len(boundaries)
        ELSE (CHOOSE i \in right : \A j \in right : i <= j) - 1

TableCell(text, confidence, row, column, blocks) == [text |-> text, confidence |-> confidence, row |-> row, column |-> column, blocks |-> blocks]

\* The minimum kept at the confidence of the cell's first block
min_confidence_first(cell) == cell.confidence

\* TableCell.min_confidence
min_confidence(cell) ==
    IF Len(cell.blocks) = 0 THEN cell.confidence
    ELSE CHOOSE c \in { cell.blocks[i].confidence : i \in 1..Len(cell.blocks) } :
           \A i \in 1..Len(cell.blocks) : c <= cell.blocks[i].confidence

\* for block in blocks: the cells of one row, a function from the column
\* indices in use to TableCell
RECURSIVE RowCells(_, _, _, _)
RowCells(blocks, column_positions, row_idx, cells) ==
    IF Len(blocks) = 0 THEN cells
    ELSE LET block == Head(blocks)
             col_idx == get_column_index(center_x(block), column_positions)
             cell == IF col_idx \in DOMAIN cells
                     THEN [cells[col_idx] EXCEPT !.text = @ \o <<" ">> \o block.text,
                                                 !.blocks = Append(@, block)]
                     ELSE TableCell(block.text, block.confidence, row_idx, col_idx, <<block>>)
         IN  RowCells(Tail(blocks), column_positions, row_idx,
                      [c \in (DOMAIN cells) \cup {col_idx} |-> IF c = col_idx THEN cell ELSE cells[c]])

TableRow(index, cells) == [index |-> index, cells |-> cells]

\* TableDetector._build_table_rows(text_rows, column_positions)
build_table_rows(text_rows, column_positions) ==
    [r \in 1..Len(text_rows) |->
        TableRow(r - 1, RowCells(text_rows[r], column_positions, r - 1, <<>>))]

COLUMN_PATTERNS ==
    << [name |-> <<"q","u","a","n","t","i","t","y">>, patterns |-> <<<<"q","t","y">>, <<"q","u","a","n","t","i","t","y">>, <<"u","n","i","t","s">>, <<"c","o","u","n","t">>, <<"p","c","s">>>>],
       [name |-> <<"d","e","s","c","r","i","p","t","i","o","n">>, patterns |-> <<<<"d","e","s","c","r","i","p","t","i","o","n">>, <<"i","t","e","m">>, <<"p","r","o","d","u","c","t">>, <<"s","e","r","v","i","c","e">>, <<"p","a","r","t","i","c","u","l","a","r","s">>>>],
       [name |-> <<"u","n","i","t","_","p","r","i","c","e">>, patterns |-> <<<<"u","n","i","t"," ","p","r","i","c","e">>, <<"p","r","i","c","e">>, <<"r","a","t","e">>, <<"u","n","i","t"," ","c","o","s","t">>, <<"e","a","c","h">>>>],
       [name |-> <<"a","m","o","u","n","t">>, patterns |-> <<<<"a","m","o","u","n","t">>, <<"t","o","t","a","l">>, <<"l","i","n","e"," ","t","o","t","a","l">>, <<"e","x","t",".">>, <<"e","x","t","e","n","s","i","o","n">>>>] >>

\* The canonical names whose patterns occur in the text, as indices
canonical_matches(text) ==
    { k \in 1..Len(COLUMN_PATTERNS) :
        \E p \in 1..Len(COLUMN_PATTERNS[k].patterns) : StrContains(text, COLUMN_PATTERNS[k].patterns[p]) }

\* TableDetector._detect_header(first_row, column_positions)
detect_header(first_row) ==
    [ c \in DOMAIN first_row.cells |->
        LET text == StrStrip(StrLower(first_row.cells[c].text))
            named == canonical_matches(text)
        IN  IF named # {} THEN COLUMN_PATTERNS[CHOOSE k \in named : \A j \in named : k <= j].name
            ELSE text ]

DetectedTable(rows, column_positions, column_names) == [rows |-> rows, column_positions |-> column_positions, column_names |-> column_names]

\* DetectedTable.iter_data_rows()
iter_data_rows(table) ==
    IF Len(table.rows) = 0 THEN <<>>
    ELSE IF DOMAIN table.column_names # {} THEN Tail(table.rows)
    ELSE table.rows
(***************************************************************************)
(* SpecTable: TableDetector._detect_tables_on_page on the fragments of one *)
(* page, one action for each step, then DetectedTable.iter_data_rows.      *)
(* out[1] holds the locals of the call.                                    *)
(***************************************************************************)
MaxBlocks == 3

\* The fragments of the pages: the text goes with the left edge, the
\* confidence with the vertical center; every fragment is 100 wide, 10 high.
BlockLeftEdges == {100, 140, 400, 700}
BlockCenters == {100, 110, 120}
BlockText(x_min) ==
    CASE x_min = 100 -> <<"Q","t","y">> [] x_min = 140 -> <<"f","o","o">> [] x_min = 400 -> <<"T","o","t","a","l">> [] OTHER -> <<"7">>
BlockConfidence(y) == CASE y = 100 -> 90 [] y = 110 -> 50 [] OTHER -> 70

PageBlocks ==
    { PageBlock(BlockText(x), BlockConfidence(y), x, y - 5, x + 100, y + 5) :
        x \in BlockLeftEdges, y \in BlockCenters }

Pages == UNION { [1..n -> PageBlocks] : n \in 0..MaxBlocks }

TableLocals(stage, rows, column_positions, table_rows, tables, data_rows) == [stage |-> stage, rows |-> rows, column_positions |-> column_positions, table_rows |-> table_rows, tables |-> tables, data_rows |-> data_rows]

InitTable ==
    /\ svc = NoService
    /\ ServiceIdle
    /\ args \in [fn : {"detect_tables"}, blocks : Pages]
    /\ out = <<>>

\* rows = self._group_into_rows(blocks)
GroupIntoRows ==
    /\ args.fn = "detect_tables"
    /\ out = <<>>
    /\ Len(args.blocks) > 0
    /\ out' = << TableLocals("rows", group_into_rows(args.blocks), <<>>, <<>>, <<>>, <<>>) >>
    /\ UNCHANGED <<svc, pc, req, loc, calls, ret, issued, mint, args>>

\* if not blocks: return [] / if len(rows) < self.min_rows: return [] /
\* if not table_rows: return []
ReturnNoTable ==
    /\ args.fn = "detect_tables"
    /\ \/ out = <<>> /\ Len(args.blocks) = 0
       \/ out # <<>> /\ out[1].stage = "rows" /\ Len(out[1].rows) < MIN_TABLE_ROWS
       \/ out # <<>> /\ out[1].stage = "table_rows" /\ Len(out[1].table_rows) = 0
    /\ out' = << TableLocals("returned", <<>>, <<>>, <<>>, <<>>, <<>>) >>
    /\ UNCHANGED <<svc, pc, req, loc, calls, ret, issued, mint, args>>

\* column_positions = self._detect_column_boundaries(blocks)
DetectColumnBoundaries ==
    /\ args.fn = "detect_tables"
    /\ out # <<>> /\ out[1].stage = "rows" /\ Len(out[1].rows) >= MIN_TABLE_ROWS
    /\ out' = << [out[1] EXCEPT !.stage = "columns",
                                !.column_positions = detect_column_boundaries(args.blocks)] >>
    /\ UNCHANGED <<svc, pc, req, loc, calls, ret, issued, mint, args>>

\* table_rows = self._build_table_rows(rows, column_positions)
BuildTableRows ==
    /\ args.fn = "detect_tables"
    /\ out # <<>> /\ out[1].stage = "columns"
    /\ out' = << [out[1] EXCEPT !.stage = "table_rows",
                                !.table_rows = build_table_rows(out[1].rows, out[1].column_positions)] >>
    /\ UNCHANGED <<svc, pc, req, loc, calls, ret, issued, mint, args>>

\* column_names = self._detect_header(table_rows[0], column_positions);
\* table = DetectedTable(...); return [table]
DetectHeader ==
    /\ args.fn = "detect_tables"
    /\ out # <<>> /\ out[1].stage = "table_rows" /\ Len(out[1].table_rows) > 0
    /\ out' = << [out[1] EXCEPT !.stage = "returned",
                                !.tables = << DetectedTable(out[1].table_rows, out[1].column_positions,
                                                            detect_header(out[1].table_rows[1])) >>] >>
    /\ UNCHANGED <<svc, pc, req, loc, calls, ret, issued, mint, args>>

\* for row in table.iter_data_rows(), on the table returned
IterDataRows ==
    /\ args.fn = "detect_tables"
    /\ out # <<>> /\ out[1].stage = "returned" /\ Len(out[1].tables) > 0
    /\ out' = << [out[1] EXCEPT !.stage = "iterated",
                                !.data_rows = iter_data_rows(out[1].tables[1])] >>
    /\ UNCHANGED <<svc, pc, req, loc, calls, ret, issued, mint, args>>

NextTable ==
    \/ GroupIntoRows
    \/ ReturnNoTable
    \/ DetectColumnBoundaries
    \/ BuildTableRows
    \/ DetectHeader
    \/ IterDataRows

SpecTable == InitTable /\ [][NextTable]_vars

(***************************************************************************)
(* The table detector's results, stated over the fragments of the page.    *)
(***************************************************************************)
TableStep == args.fn = "detect_tables" /\ out # <<>>
RowsGrouped == TableStep /\ out[1].stage = "rows"

\* The fragments in the order of their vertical centers
ByVerticalCenter == SortedBlocks(args.blocks, FALSE)

\* The row that holds the k-th fragment of that order: rows are filled
\* with consecutive fragments
RowOfFragment(k) ==
    CHOOSE r \in 1..Len(out[1].rows) :
        LET before == SumSeq([q \in 1..(r - 1) |-> Len(out[1].rows[q])])
        IN  before < k /\ k <= before + Len(out[1].rows[r])

\* Twice the distance of the vertical centers of two fragments
VerticalGap(a, b) == Abs((a.y_min + a.y_max) - (b.y_min + b.y_max))

\* C23: after sorting by vertical center, two consecutive fragments are in
\* the same row exactly when their vertical centers differ by at most the
\* row tolerance; every fragment is in exactly one row, rows go top to
\* bottom and the fragments of a row are ordered by horizontal center.
C23_RowsByConsecutiveGap ==
    RowsGrouped =>
        /\ SumSeq([r \in 1..Len(out[1].rows) |-> Len(out[1].rows[r])]) = Len(args.blocks)
        /\ \A k \in 1..(Len(ByVerticalCenter) - 1) :
             (RowOfFragment(k) = RowOfFragment(k + 1))
               <=> (VerticalGap(ByVerticalCenter[k], ByVerticalCenter[k + 1]) <= 2 * 15)
        /\ \A r \in 1..Len(out[1].rows) : \A i \in 1..(Len(out[1].rows[r]) - 1) :
             out[1].rows[r][i].x_min + out[1].rows[r][i].x_max
               <= out[1].rows[r][i + 1].x_min + out[1].rows[r][i + 1].x_max
        /\ \A r \in 1..(Len(out[1].rows) - 1) : \A a \in 1..Len(out[1].rows[r]) :
             \A b \in 1..Len(out[1].rows[r + 1]) :
               out[1].rows[r][a].y_min + out[1].rows[r][a].y_max
                 <= out[1].rows[r + 1][b].y_min + out[1].rows[r + 1][b].y_max

ColumnsDetected == TableStep /\ out[1].stage = "columns"

\* The left edges of the page, as a set, and the first edges of their
\* clusters: the smallest edge, then each edge that is more than the column
\* tolerance after the first edge of the cluster before it
LeftEdges == { args.blocks[i].x_min : i \in 1..Len(args.blocks) }

RECURSIVE ClusterFirsts(_)
ClusterFirsts(edges) ==
    IF edges = {} THEN {}
    ELSE LET first == CHOOSE e \in edges : \A f \in edges : e <= f
         IN  {first} \cup ClusterFirsts({ e \in edges : e - first > 50 })

\* The centroid of the cluster that starts at the edge first: the mean of
\* the left edges of the fragments it holds
ClusterCentroid(first) ==
    LET later == { f \in ClusterFirsts(LeftEdges) : f > first }
        members == { i \in 1..Len(args.blocks) :
                       /\ args.blocks[i].x_min >= first
                       /\ \A f \in later : args.blocks[i].x_min < f }
        ordered == CHOOSE s \in [1..Cardinality(members) -> members] :
                       \A a, b \in 1..Cardinality(members) : a # b => s[a] # s[b]
    IN  Rational(SumSeq([k \in 1..Cardinality(members) |-> args.blocks[ordered[k]].x_min]),
                 Cardinality(members))

\* C24: when the left edges form k clusters the detector returns exactly
\* k - 1 boundaries, strictly increasing, each the midpoint of two
\* successive cluster centroids, so that the table has k columns.
C24_BoundariesBetweenClusters ==
    ColumnsDetected =>
        LET firsts == ClusterFirsts(LeftEdges)
            Nth(n) == CHOOSE f \in firsts : Cardinality({ g \in firsts : g < f }) = n - 1
        IN  /\ Len(out[1].column_positions) = Cardinality(firsts) - 1
            /\ \A n \in 1..Len(out[1].column_positions) :
                 out[1].column_positions[n] = Midpoint(ClusterCentroid(Nth(n)), ClusterCentroid(Nth(n + 1)))
            /\ \A n \in 1..(Len(out[1].column_positions) - 1) :
                 RationalLess(out[1].column_positions[n], out[1].column_positions[n + 1])

CellsBuilt == TableStep /\ out[1].stage = "table_rows"

\* The fragments of row r that fall in column c, left to right
Constituents(r, c) ==
    SelectSeq(out[1].rows[r],
              LAMBDA b : get_column_index(center_x(b), out[1].column_positions) = c)

IsMinimumOf(value, fragments) ==
    /\ \E i \in 1..Len(fragments) : fragments[i].confidence = value
    /\ \A i \in 1..Len(fragments) : value <= fragments[i].confidence

\* Every cell of the table holds the fragments of its row and column, and
\* its text is their texts joined with single spaces, left to right
CellTextsJoined ==
    \A r \in 1..Len(out[1].table_rows) : \A c \in DOMAIN out[1].table_rows[r].cells :
        /\ Len(Constituents(r, c)) > 0
        /\ out[1].table_rows[r].cells[c].text
             = StrJoinSpace([i \in 1..Len(Constituents(r, c)) |-> Constituents(r, c)[i].text])

\* C25 as stated: the text of a cell is the texts of its fragments joined
\* with single spaces in left-to-right order, and the confidence of the
\* cell is the minimum confidence of its fragments.
C25_CellConfidenceIsMinimum ==
    CellsBuilt =>
        /\ CellTextsJoined
        /\ \A r \in 1..Len(out[1].table_rows) : \A c \in DOMAIN out[1].table_rows[r].cells :
             IsMinimumOf(out[1].table_rows[r].cells[c].confidence, Constituents(r, c))

\* C25: the text of a cell is the texts of its fragments joined with single
\* spaces in left-to-right order; min_confidence of the cell is the minimum
\* confidence of its fragments, and the field confidence is the confidence
\* of the leftmost fragment.
C25_MinConfidenceIsMinimum ==
    CellsBuilt =>
        /\ CellTextsJoined
        /\ \A r \in 1..Len(out[1].table_rows) : \A c \in DOMAIN out[1].table_rows[r].cells :
             /\ IsMinimumOf(min_confidence(out[1].table_rows[r].cells[c]), Constituents(r, c))
             /\ out[1].table_rows[r].cells[c].confidence = Constituents(r, c)[1].confidence

\* A cell made of two fragments, the leftmost not the least trusted
C25_Witness ==
    /\ CellsBuilt
    /\ \E r \in 1..Len(out[1].table_rows) : \E c \in DOMAIN out[1].table_rows[r].cells :
         /\ Len(out[1].table_rows[r].cells[c].blocks) >= 2
         /\ min_confidence(out[1].table_rows[r].cells[c]) < out[1].table_rows[r].cells[c].confidence

RowsIterated == TableStep /\ out[1].stage = "iterated"

\* A header cell is resolved when its text holds a synonym of a canonical
\* column name
HeaderResolved ==
    \E c \in DOMAIN out[1].tables[1].rows[1].cells :
        canonical_matches(StrStrip(StrLower(out[1].tables[1].rows[1].cells[c].text))) # {}

\* C26: iter_data_rows omits the first row only if a header cell of that
\* row was resolved to a canonical column name; a table whose first row
\* matches no synonym is iterated with all of its rows.
C26_HeaderSkippedOnlyIfNamed ==
    RowsIterated =>
        /\ (out[1].data_rows # out[1].tables[1].rows) => HeaderResolved
        /\ ~HeaderResolved => out[1].data_rows = out[1].tables[1].rows

(***************************************************************************)
(* Anomalies and the status of run_full_verification (SpecRules).          *)
(***************************************************************************)
AnomalyCodes(result) == { result.anomalies[i].code : i \in 1..Len(result.anomalies) }

AllChecksPassed(result) == \A i \in 1..Len(result.checks) : result.checks[i].passed

\* The result of the same call with another historical_average.
ResultWith(historical_average) ==
    run_full_verification(args.bundle, historical_average, args.confidence_threshold)

\* C27: the status and the review flags returned by run_full_verification are
\* the same for every value of historical_average (None included); every
\* anomaly emitted has severity "warning"; and a result whose checks all
\* passed and that has no review flag is PASSED, whatever AMOUNT_SPIKE,
\* LONG_TERM or LINE_ITEM_MATH anomalies it carries.
C27_StatusIgnoresAnomalies ==
    Returned("run_full_verification") =>
        /\ \A h \in HistoricalAverages :
               /\ ResultWith(h).status = out[1].status
               /\ ResultWith(h).review_flags = out[1].review_flags
        /\ \A i \in 1..Len(out[1].anomalies) : out[1].anomalies[i].severity = "warning"
        /\ (AllChecksPassed(out[1]) /\ out[1].review_flags = <<>>) => out[1].status = "PASSED"

\* A PASSED result carrying all three kinds of anomaly, from a call whose
\* result without a historical average carries no AMOUNT_SPIKE.
C27_Witness ==
    /\ Returned("run_full_verification")
    /\ out[1].status = "PASSED"
    /\ AnomalyCodes(out[1]) = {"AMOUNT_SPIKE", "LONG_TERM", "LINE_ITEM_MATH"}
    /\ "AMOUNT_SPIKE" \notin AnomalyCodes(ResultWith(<<>>))

(***************************************************************************)
(* SpecVerifyWallet: one DIDVerifier (services/did.py) whose verify_wallet *)
(* is called again and again on one event loop while the clock advances.   *)
(* A call is two steps, before and after `await client.request(request)`;  *)
(* args holds the clock, calls the requests sent to the ledger, loc the    *)
(* outcome of the lookup of the call in progress or just ended.            *)
(***************************************************************************)
MaxLookups == 3   \* ledger requests followed

\* age_seconds > self.cache_ttl, with the boundary taken as expired.
cache_expired_ge(age_seconds, cache_ttl) == age_seconds >= cache_ttl

\* if age_seconds > self.cache_ttl
cache_expired(age_seconds, cache_ttl) == age_seconds > cache_ttl

\* DIDVerifier._get_cached(wallet_address): the result returned (<<>> is None)
\* and the cache it leaves.
get_cached(cache, wallet_address, now, cache_ttl) ==
    IF cache[wallet_address] = <<>>
    THEN [result |-> <<>>, cache |-> cache]
    ELSE LET entry == cache[wallet_address][1] IN
         IF cache_expired(now - entry.cached_at, cache_ttl)
         THEN [result |-> <<>>, cache |-> [cache EXCEPT ![wallet_address] = <<>>]]
         ELSE [result |-> <<entry.result>>, cache |-> cache]

\* DIDVerifier._cache_result(wallet_address, result)
cache_result(cache, wallet_address, result, now) ==
    [cache EXCEPT ![wallet_address] = << CacheEntry(result, now) >>]

InitVerifyWallet ==
    /\ svc = [xrpl |-> "None", did |-> "DIDVerifier", confidence_threshold |-> 70,
              cache_ttl |-> CacheTtl, _cache |-> EmptyCache]
    /\ pc = "idle"
    /\ req = <<>> /\ loc = <<>> /\ ret = <<>>
    /\ calls = <<>> /\ issued = <<>> /\ mint = <<>>
    /\ args = [fn |-> "verify_wallet", now |-> 0]
    /\ out = <<>>

\* verify_wallet(wallet_address, bypass_cache) up to the return of the cached
\* result or to `response = await client.request(request)`
VerifyWalletCall ==
    /\ pc = "idle"
    /\ Len(calls) < MaxLookups
    /\ \E w \in CachedWallets, bypass_cache \in BOOLEAN :
         LET cached == get_cached(svc._cache, w, args.now, svc.cache_ttl) IN
         /\ req' = << [wallet_address |-> w, bypass_cache |-> bypass_cache] >>
         /\ loc' = <<>>
         /\ IF ~bypass_cache /\ cached.result # <<>>
            THEN /\ ret' = cached.result
                 /\ pc' = "idle"
                 /\ UNCHANGED <<svc, calls>>
            ELSE /\ svc' = [svc EXCEPT !._cache = IF bypass_cache THEN @ ELSE cached.cache]
                 /\ calls' = Append(calls, "AccountObjects")
                 /\ ret' = <<>>
                 /\ pc' = "request"
    /\ UNCHANGED <<issued, mint, args, out>>

\* verify_wallet from the end of the request to its return
LedgerResponds ==
    /\ pc = "request"
    /\ \E response \in LedgerResponses :
         LET w == req[1].wallet_address
             result == DIDVerificationResult(w, lookup_status(response))
         IN  /\ loc' = <<response>>
             /\ svc' = [svc EXCEPT !._cache =
                           IF response = "exception" THEN @
                           ELSE cache_result(@, w, result, args.now)]
             /\ ret' = <<result>>
    /\ pc' = "idle"
    /\ UNCHANGED <<req, calls, issued, mint, args, out>>

NextVerifyWallet ==
    \/ VerifyWalletCall
    \/ LedgerResponds
    \/ Tick

SpecVerifyWallet == InitVerifyWallet /\ [][NextVerifyWallet]_vars

\* The entry of the wallet of the call that begins is at most cache_ttl old.
FreshEntry(w) ==
    /\ svc._cache[w] # <<>>
    /\ args.now - svc._cache[w][1].cached_at <= svc.cache_ttl

OtherEntriesKept(w) == \A v \in CachedWallets \ {w} : svc'._cache[v] = svc._cache[v]

CallStep ==
    pc = "idle" /\ args' = args =>
        LET w == req'[1].wallet_address
            served == ~req'[1].bypass_cache /\ FreshEntry(w)
        IN  /\ served <=> (pc' = "idle" /\ calls' = calls)
            /\ served => ret' = <<svc._cache[w][1].result>> /\ svc' = svc
            /\ ~served => pc' = "request" /\ calls' = Append(calls, "AccountObjects")
            /\ (~req'[1].bypass_cache /\ svc._cache[w] # <<>> /\ ~FreshEntry(w)) =>
                   svc'._cache[w] = <<>>
            /\ req'[1].bypass_cache => svc' = svc
            /\ OtherEntriesKept(w)

ResponseStep ==
    pc = "request" /\ args' = args =>
        LET w == req[1].wallet_address IN
        /\ pc' = "idle" /\ calls' = calls
        /\ ret'[1].wallet_address = w
        /\ IF loc'[1] = "exception"
           THEN svc' = svc
           ELSE svc'._cache[w] = << CacheEntry(ret'[1], args.now) >>
        /\ OtherEntriesKept(w)

ClockStep == args' # args => svc' = svc /\ calls' = calls

\* C28: over any sequence of verify_wallet calls and clock advances, a call
\* without bypass_cache returns the stored result without a ledger request
\* exactly when the wallet has an entry at most cache_ttl old; an older entry
\* is removed by that read and a ledger request follows; a call with
\* bypass_cache always sends a ledger request and, when the lookup completes,
\* the entry is replaced by the new result stamped with the current time; a
\* lookup that ended in an exception leaves the cache as it was.
C28_CacheSemantics == [][CallStep /\ ResponseStep /\ ClockStep]_vars

\* A call was served from an entry exactly cache_ttl old, after an earlier
\* lookup of the same wallet.
C28_Witness ==
    /\ pc = "idle" /\ ret # <<>> /\ loc = <<>>
    /\ ~req[1].bypass_cache
    /\ calls # <<>>
    /\ svc._cache[req[1].wallet_address] # <<>>
    /\ args.now - svc._cache[req[1].wallet_address][1].cached_at = svc.cache_ttl
    /\ ret[1] = svc._cache[req[1].wallet_address][1].result

(***************************************************************************)
(* The pipeline composed with DIDVerifier (Spec).                          *)
(***************************************************************************)
DidVerifierAsked ==
    /\ req # <<>>
    /\ req[1].verify_did
    /\ svc.did = "DIDVerifier"
    /\ Invoked("verify_wallet")

BundleConfidences(bundle) ==
    { bundle.invoice[f].confidence :
          f \in {"invoice_number", "total_amount", "currency", "invoice_date",
                 "due_date", "payee_name", "payer_name"} }
    \cup { bundle.purchase_order[f].confidence :
          f \in {"po_number", "authorized_amount", "currency", "po_date",
                 "buyer_name", "vendor_name"} }
    \cup { bundle.proof_of_delivery[f].confidence :
          f \in {"delivery_reference", "quantity_delivered", "delivery_date",
                 "recipient_name"} }

\* At least one field carries the failure sentinel: confidence exactly 0.
HasSentinel(bundle) == 0 \in BundleConfidences(bundle)

\* C30: for a bundle in which at least one field of the invoice, the purchase
\* order or the proof of delivery has confidence exactly 0, run_full_verification
\* with a confidence_threshold greater than 0 never returns PASSED.
C30_SentinelNeverPassed ==
    ( /\ Returned("run_full_verification")
      /\ args.confidence_threshold > 0
      /\ HasSentinel(args.bundle) ) => out[1].status # "PASSED"

====
